---- MODULE Spec2Model ----
(***************************************************************************)
(* Context extraction and token budgeting of the static-analysis           *)
(* classifier: the function locator, the caller tracker, the two-phase     *)
(* context builder and the token optimizer, as state machines.             *)
(***************************************************************************)
EXTENDS Integers, Sequences, FiniteSets, TLC

VARIABLES
    loc,    \* the function locator: one extract_function_at_line call
    trk,    \* the caller tracker: one find_callers / find_call_chain call
    opt,    \* the token optimizer: a heap of contexts and the calls made on it
    p2,     \* the context builder: one build_phase2_context call
    run,    \* the classifier: process and its loop over the findings
    ph1,    \* the context builder: one build_phase1_context call
    res,    \* the symbol resolver: one find_types / find_macros call
    thr,    \* the translation-unit cache shared by concurrent threads
    cache,  \* the translation-unit cache under a sequence of calls
    fu,     \* the producers of function units
    cm,     \* the CMake parser: one parse call
    llm,    \* the LLM client: one classify call and its attempts
    xl      \* the spreadsheet: the rows read and the rows written

vars == <<loc, trk, opt, p2, run, ph1, res, thr, cache, fu, cm, llm, xl>>

Idle == [pc |-> "idle"]

(***************************************************************************)
(* Bounds of the model.                                                    *)
(***************************************************************************)
\* Python's interpreter stack limit (sys.getrecursionlimit()), scaled down.
RecursionLimit == 12
\* Target lines tried on every file.
MaxLine == 10
\* The longest file list of a caller tracker.
MaxFiles == 3
\* The largest max_callers and max_depth a caller search is called with.
MaxCallersArg == 3
MaxDepthArg == 1
\* The longest file list and the largest max_depth of a call-chain search.
MaxChainFiles == 2
MaxChainDepth == 3
\* The calls of optimize_context made on one context.
MaxPasses == 2
\* the number of findings of a report
MaxFindings == 2
\* the words of a snippet, and the max_types / max_macros arguments
MaxSnippetWords == 3
MaxItemsArg == 2
\* the threads sharing one analyzer
NThreads == 2
\* the calls of one series on the cache
MaxCalls == 3
\* The largest max_retries classify is called with.
MaxRetriesArg == 3
\* The most data rows of a sheet.
MaxRows == 3

(***************************************************************************)
(* Constants of the program.                                               *)
(***************************************************************************)
\* find_call_chain: `len(chains) >= 10`
MaxChains == 10
\* find_call_chain: find_callers(..., max_depth=1, max_callers=5)
ChainStepCallers == 5
\* TokenOptimizer.BASE_TOKENS and TokenOptimizer.CHARS_PER_TOKEN
BASE_TOKENS == 2000
CHARS_PER_TOKEN == 3
\* _truncate_function: the lines kept before and after the focus line
FocusWindow == 50
\* _truncate_caller: `lines[:30]` and `max_tokens < 50`
CallerHeadLines == 30
MinCallerTokens == 50
\* build_phase1_context: context_lines=20; build_phase2_context: max_callers = 2
ContextLines == 20
DefaultMaxCallers == 2
\* _optimize_functions: `remaining > 100`
MinUsefulTokens == 100
\* the characters of "// ... (省略: 行 " + " - " + ")" and of "// ... (以下省略)"
RangeMarkerChars == 18
CallerMarkerChars == 13

(***************************************************************************)
(* The AST provider's cursor trees.  A cursor is a record; `file` says     *)
(* whether node.location.file is the file that is being searched           *)
(* ("same"), another file ("other", a node of an included header) or       *)
(* absent ("none", the translation unit's root).                           *)
(***************************************************************************)
Node(kind, spelling, s, e, isDef, file, children) ==
    [kind |-> kind, spelling |-> spelling, start |-> s, end |-> e,
     isDef |-> isDef, file |-> file, children |-> children]

Call(name, l) == Node("CALL_EXPR", name, l, l, FALSE, "same", <<>>)
Compound(s, e, ch) == Node("COMPOUND_STMT", "", s, e, FALSE, "same", ch)
FnDef(kind, name, s, e, ch) ==
    Node(kind, name, s, e, TRUE, "same", <<Compound(s, e, ch)>>)
Lambda(s, e, ch) ==
    Node("VAR_DECL", "l", s, e, TRUE, "same",
         <<Node("LAMBDA_EXPR", "", s, e, FALSE, "same", <<Compound(s, e, ch)>>)>>)
TU(e, ch) == Node("TRANSLATION_UNIT", "tu", 1, e, FALSE, "none", ch)

\* 1: void Foo() {      4: void A() {            9: int g;
\* 2:   Bar();          5:   Foo();
\* 3: }                 6:   auto l = []() {
\*                      7:     Foo(); };
\*                      8: }
File1 ==
    TU(9, << FnDef("FUNCTION_DECL", "Foo", 1, 3, <<Call("Bar", 2)>>),
             FnDef("FUNCTION_DECL", "A", 4, 8,
                   <<Call("Foo", 5), Lambda(6, 7, <<Call("Foo", 7)>>)>>),
             Node("VAR_DECL", "g", 9, 9, TRUE, "same", <<>>) >>)

\* 1: void Foo();       2: void B() {            6: void C::m() { Foo(); Foo(); }
\*                      3:   Foo();
\*                      4:   A();
\*                      5: }
File2 ==
    TU(6, << Node("FUNCTION_DECL", "Foo", 1, 1, FALSE, "same", <<>>),
             FnDef("FUNCTION_DECL", "B", 2, 5, <<Call("Foo", 3), Call("A", 4)>>),
             FnDef("CXX_METHOD", "m", 6, 6, <<Call("Foo", 6), Call("Foo", 6)>>) >>)

\* (header) void H() { Foo(); }     4: void Foo() {       7: void R() { R(); }
\* 1: auto k = []() {               5:   A();
\* 2:   Foo();                      6: }
\* 3: };
File3 ==
    TU(7, << Node("FUNCTION_DECL", "H", 1, 3, TRUE, "other",
                  <<Compound(1, 3, <<Call("Foo", 2)>>)>>),
             Lambda(1, 3, <<Call("Foo", 2)>>),
             FnDef("FUNCTION_DECL", "Foo", 4, 6, <<Call("A", 5)>>),
             FnDef("FUNCTION_DECL", "R", 7, 7, <<Call("R", 7)>>) >>)

\* 1: void Outer() {                        a method of a local class, defined
\* 2:   struct L { void g() { Foo(); } };   inside a function, and a constructor
\* 3:   Foo();
\* 4: }
\* 5: S::S() { Foo(); }
File4 ==
    TU(5, << FnDef("FUNCTION_DECL", "Outer", 1, 4,
                   << Node("STRUCT_DECL", "L", 2, 2, TRUE, "same",
                           <<FnDef("CXX_METHOD", "g", 2, 2, <<Call("Foo", 2)>>)>>),
                      Call("Foo", 3) >>),
             FnDef("CONSTRUCTOR", "S", 5, 5, <<Call("Foo", 5)>>) >>)

\* 1: void X1() { Foo(); }  ...  4: void X4() { Foo(); }
File5 ==
    TU(4, [i \in 1..4 |->
             FnDef("FUNCTION_DECL", <<"X1", "X2", "X3", "X4">>[i], i, i,
                   <<Call("Foo", i)>>)])

\* 1: void Y1() { X1(); X2(); X3(); X4(); }  ...  3: void Y3() { ... }
File6 ==
    TU(3, [i \in 1..3 |->
             FnDef("FUNCTION_DECL", <<"Y1", "Y2", "Y3">>[i], i, i,
                   <<Call("X1", i), Call("X2", i), Call("X3", i), Call("X4", i)>>)])

\* 1: void P() { Foo(); }     2: a cursor whose kind the bindings do not know:
\* 3: void Q() { Foo(); }        reading node.kind raises ValueError
File7 ==
    TU(3, << FnDef("FUNCTION_DECL", "P", 1, 1, <<Call("Foo", 1)>>),
             Node("UNKNOWN_KIND", "", 2, 2, FALSE, "same", <<>>),
             FnDef("FUNCTION_DECL", "Q", 3, 3, <<Call("Foo", 3)>>) >>)

\* the last file is given to the caller tracker only
Files == <<File1, File2, File3, File4, File5, File6, File7>>
FileIds == 1..(Len(Files) - 1)

(***************************************************************************)
(* Function locator (analyzer/function_extractor.py).                      *)
(***************************************************************************)
LocatorFunctionKinds ==
    {"FUNCTION_DECL", "CXX_METHOD", "CONSTRUCTOR", "DESTRUCTOR", "FUNCTION_TEMPLATE"}

NotFound == [tag |-> "none"]
Found(n) == [tag |-> "node", node |-> n]
\* RecursionError: the interpreter's stack is exhausted.
Overflow == [tag |-> "overflow"]

Contains(node, line) == node.start <= line /\ line <= node.end

RECURSIVE FindEnclosingFunction(_, _, _)
RECURSIVE TraverseLocator(_, _, _)
RECURSIVE TraverseLocatorChildren(_, _, _, _)

\* _find_enclosing_function(cursor, file_path, target_line), entered with
\* `depth` frames on the stack: result = None; traverse(cursor); return result
FindEnclosingFunction(cursor, line, depth) ==
    IF depth >= RecursionLimit THEN Overflow
    ELSE TraverseLocator(cursor, line, depth + 1)

\* the nested traverse(node); what it leaves in `result`
TraverseLocator(node, line, depth) ==
    IF depth >= RecursionLimit THEN Overflow
    ELSE IF node.file = "other" THEN NotFound
    ELSE IF node.kind \in LocatorFunctionKinds /\ Contains(node, line) /\ node.isDef
    THEN LET inner == FindEnclosingFunction(node, line, depth + 1)
         IN  IF inner.tag = "none" THEN Found(node) ELSE inner
    ELSE IF node.kind = "LAMBDA_EXPR" /\ Contains(node, line) THEN Found(node)
    ELSE TraverseLocatorChildren(node.children, 1, line, depth + 1)

\* for child in node.get_children(): traverse(child); if result: return
TraverseLocatorChildren(children, i, line, depth) ==
    IF i > Len(children) THEN NotFound
    ELSE LET r == TraverseLocator(children[i], line, depth)
         IN  IF r.tag # "none" THEN r
             ELSE TraverseLocatorChildren(children, i + 1, line, depth)

\* extract_function_at_line: the cursor found, or None (also on any exception,
\* a parse failure or an exhausted stack included)
ExtractResult(file, line, parse_ok) ==
    IF ~parse_ok THEN NotFound
    ELSE LET r == FindEnclosingFunction(Files[file], line, 1)
         IN  IF r.tag = "overflow" THEN NotFound ELSE r

InitLocator ==
    /\ loc \in [pc : {"call"}, file : FileIds, line : 1..MaxLine,
                parse_ok : BOOLEAN, raised : {FALSE}, result : {NotFound}]
    /\ trk = Idle /\ opt = Idle /\ p2 = Idle
    /\ run = Idle /\ ph1 = Idle /\ res = Idle /\ thr = Idle
    /\ cache = Idle /\ fu = Idle /\ cm = Idle
    /\ llm = Idle /\ xl = Idle

ExtractFunctionAtLine ==
    /\ loc.pc = "call"
    /\ loc' = [loc EXCEPT
                 !.pc = "done",
                 !.raised = loc.parse_ok /\
                            FindEnclosingFunction(Files[loc.file], loc.line, 1) = Overflow,
                 !.result = ExtractResult(loc.file, loc.line, loc.parse_ok)]
    /\ UNCHANGED <<trk, opt, p2, run, ph1, res, thr, cache, fu, cm, llm, xl>>

NextLocator == ExtractFunctionAtLine

SpecLocator == InitLocator /\ [][NextLocator]_vars

(***************************************************************************)
(* Source text.  A text is the sequence of its lines (what split("\n")     *)
(* gives and "\n".join takes); a line is a record: an original line of     *)
(* the file (k = "src", a = its absolute line number), the empty string    *)
(* that follows a text's last newline (k = "end"), or a marker line the    *)
(* optimizer wrote.  len is the line's length in characters.               *)
(***************************************************************************)
SrcLine(n, l) == [k |-> "src", a |-> n, b |-> 0, len |-> l]
EndLine == [k |-> "end", a |-> 0, b |-> 0, len |-> 0]

\* the length in characters of line n of a file of the library
FileLineLen(file, n) == 8 + ((file + n) % 3)
FileLineCount(file) == Files[file].end

\* "".join(f.readlines()[start_line - 1:end_line]), as the lines split("\n") gives:
\* every line read ends with its newline, so an empty string follows the last
ReadSourceRange(file, start_line, end_line) ==
    LET lo == IF start_line - 1 < 0 THEN 0 ELSE start_line - 1
        hi == IF end_line > FileLineCount(file) THEN FileLineCount(file) ELSE end_line
    IN  IF hi <= lo THEN <<EndLine>>
        ELSE [i \in 1..(hi - lo) |-> SrcLine(lo + i, FileLineLen(file, lo + i))]
             \o <<EndLine>>

\* FunctionInfo(name, file_path, start_line, end_line, code, signature,
\* return_type, parameters); "" stands for None
FunctionInfo(name, file, s, e, code, signature, return_type, parameters) ==
    [name |-> name, file_path |-> file, start_line |-> s, end_line |-> e,
     code |-> code, signature |-> signature, return_type |-> return_type,
     parameters |-> parameters]

(***************************************************************************)
(* Caller tracker (analyzer/caller_tracker.py).                            *)
(***************************************************************************)
TrackerFunctionKinds == {"FUNCTION_DECL", "CXX_METHOD", "CONSTRUCTOR", "DESTRUCTOR"}

NoFunction == [tag |-> "none"]

\* func_key = f"{file_path}:{enclosing_func.spelling}"; a spelling holds no ':',
\* so the string determines the pair
FuncKey(file, name) == <<file, name>>

\* _extract_function_info(cursor, file_path): None when the file cannot be read
ExtractFunctionInfo(cursor, file, unreadable) ==
    IF file \in unreadable THEN NoFunction
    ELSE [tag |-> "info",
          info |-> FunctionInfo(cursor.spelling, file, cursor.start, cursor.end,
                                ReadSourceRange(file, cursor.start, cursor.end),
                                cursor.spelling, "", <<>>)]

\* RecordCaller without the `func_key not in visited` test
MutRecordCallerNoVisited(st, enclosing, file, unreadable) ==
    LET func_info == ExtractFunctionInfo(enclosing, file, unreadable)
    IN  [st EXCEPT
           !.visited = @ \cup {FuncKey(file, enclosing.spelling)},
           !.callers = IF func_info.tag = "info" THEN Append(@, func_info.info) ELSE @]

\* RecordCaller inserting the caller at the head of the list
MutRecordCallerPrepend(st, enclosing, file, unreadable) ==
    LET func_key == FuncKey(file, enclosing.spelling)
        func_info == ExtractFunctionInfo(enclosing, file, unreadable)
    IN  IF func_key \in st.visited THEN st
        ELSE [st EXCEPT
                !.visited = @ \cup {func_key},
                !.callers = IF func_info.tag = "info"
                            THEN <<func_info.info>> \o @ ELSE @]

\* the visited.add / callers.append of traverse, for a matching call expression
RecordCaller(st, enclosing, file, unreadable) ==
    LET func_key == FuncKey(file, enclosing.spelling)
        func_info == ExtractFunctionInfo(enclosing, file, unreadable)
    IN  IF func_key \in st.visited THEN st
        ELSE [st EXCEPT
                !.visited = @ \cup {func_key},
                !.callers = IF func_info.tag = "info"
                            THEN Append(@, func_info.info) ELSE @]

RECURSIVE TraverseTracker(_, _, _, _, _, _, _)
RECURSIVE TraverseTrackerChildren(_, _, _, _, _, _, _, _)

\* _search_calls_in_tu.traverse(node, enclosing_func); st = [callers, visited]
\* and st.raised, set when an exception leaves the traversal
TraverseTracker(node, enclosing_func, target_name, file, max_callers, unreadable, st) ==
    IF Len(st.callers) >= max_callers THEN st
    ELSE IF node.file = "other" THEN st
    ELSE IF node.kind = "UNKNOWN_KIND" THEN [st EXCEPT !.raised = TRUE]
    ELSE LET enc == IF node.kind \in TrackerFunctionKinds /\ node.isDef
                    THEN Found(node) ELSE enclosing_func
             st1 == IF /\ node.kind = "CALL_EXPR"
                       /\ node.spelling = target_name
                       /\ enc.tag = "node"
                    THEN RecordCaller(st, enc.node, file, unreadable)
                    ELSE st
         IN  TraverseTrackerChildren(node.children, 1, enc, target_name, file,
                                     max_callers, unreadable, st1)

TraverseTrackerChildren(children, i, enc, target_name, file, max_callers, unreadable, st) ==
    IF i > Len(children) \/ st.raised THEN st
    ELSE TraverseTrackerChildren(
             children, i + 1, enc, target_name, file, max_callers, unreadable,
             TraverseTracker(children[i], enc, target_name, file, max_callers,
                             unreadable, st))

\* _search_calls_in_tu(tu.cursor, ...): traverse(cursor, None)
SearchCallsInTu(file, target_name, max_callers, unreadable, st) ==
    TraverseTracker(Files[file], NotFound, target_name, file, max_callers, unreadable, st)

RECURSIVE ScanSourceFiles(_, _, _, _, _, _, _)
\* the loop `for src_file in self.source_files` of _find_callers_recursive;
\* st.scanned logs the positions of the files whose search was attempted and
\* st.failed those whose search ended in the except clause
ScanSourceFiles(source_files, i, target_name, max_callers, unparsable, unreadable, st) ==
    IF i > Len(source_files) THEN st
    ELSE IF Len(st.callers) >= max_callers THEN st
    ELSE LET src_file == source_files[i]
             logged == [st EXCEPT !.scanned = Append(@, i)]
             searched == SearchCallsInTu(src_file, target_name, max_callers,
                                         unreadable, logged)
             st1 == IF src_file \in unparsable
                    THEN [logged EXCEPT !.failed = Append(@, i)]
                    ELSE IF searched.raised
                    THEN [searched EXCEPT !.raised = FALSE, !.failed = Append(@, i)]
                    ELSE searched
         IN  ScanSourceFiles(source_files, i + 1, target_name, max_callers,
                             unparsable, unreadable, st1)

\* _find_callers_recursive(..., current_depth = 0, ...)
FindCallersRecursive(target_name, source_files, max_depth, max_callers, unparsable, unreadable, st) ==
    IF 0 >= max_depth \/ Len(st.callers) >= max_callers THEN st
    ELSE ScanSourceFiles(source_files, 1, target_name, max_callers,
                         unparsable, unreadable, st)

\* callers[:max_callers], for max_callers >= 0
TakeFirst(seq, n) == SubSeq(seq, 1, IF n < Len(seq) THEN n ELSE Len(seq))

\* find_callers: the state of the search when it ends, and the list returned
FindCallersSearch(target_name, source_files, max_depth, max_callers, unparsable, unreadable) ==
    FindCallersRecursive(target_name, source_files, max_depth, max_callers,
                         unparsable, unreadable,
                         [callers |-> <<>>, visited |-> {}, scanned |-> <<>>,
                          failed |-> <<>>, raised |-> FALSE])

FindCallers(target_name, source_files, max_depth, max_callers, unparsable, unreadable) ==
    TakeFirst(FindCallersSearch(target_name, source_files, max_depth, max_callers,
                                unparsable, unreadable).callers,
              max_callers)

\* The inputs of a caller search: the function name, the tracker's file list
\* (a file may be listed twice), the two caps, and at most one file that
\* cannot be parsed or cannot be read.
SeqsUpTo(S, n) == UNION {[1..k -> S] : k \in 0..n}

TrackerTargets == {"Foo", "A", "R"}

\* the files a caller search is tried on (the last two serve the call chains)
SearchFileIds == {1, 2, 3, 4, 7}

FileFailures ==
    {[unparsable |-> {}, unreadable |-> {}]}
    \cup {[unparsable |-> {f}, unreadable |-> {}] : f \in SearchFileIds}
    \cup {[unparsable |-> {}, unreadable |-> {f}] : f \in SearchFileIds}

InitCallers ==
    /\ \E target \in TrackerTargets, files \in SeqsUpTo(SearchFileIds, MaxFiles),
          d \in 0..MaxDepthArg, c \in 0..MaxCallersArg, fail \in FileFailures :
          trk = [pc |-> "call", target |-> target, source_files |-> files,
                 max_depth |-> d, max_callers |-> c,
                 unparsable |-> fail.unparsable, unreadable |-> fail.unreadable,
                 callers |-> <<>>, visited |-> {}, scanned |-> <<>>,
                 failed |-> <<>>, result |-> <<>>]
    /\ loc = Idle /\ opt = Idle /\ p2 = Idle
    /\ run = Idle /\ ph1 = Idle /\ res = Idle /\ thr = Idle
    /\ cache = Idle /\ fu = Idle /\ cm = Idle
    /\ llm = Idle /\ xl = Idle

\* one call of find_callers
FindCallersCall ==
    /\ trk.pc = "call"
    /\ LET st == FindCallersSearch(trk.target, trk.source_files, trk.max_depth,
                                   trk.max_callers, trk.unparsable, trk.unreadable)
       IN  trk' = [trk EXCEPT
                     !.pc = "done",
                     !.callers = st.callers,
                     !.visited = st.visited,
                     !.scanned = st.scanned,
                     !.failed = st.failed,
                     !.result = FindCallers(trk.target, trk.source_files, trk.max_depth,
                                            trk.max_callers, trk.unparsable,
                                            trk.unreadable)]
    /\ UNCHANGED <<loc, opt, p2, run, ph1, res, thr, cache, fu, cm, llm, xl>>

NextCallers == FindCallersCall

SpecCallers == InitCallers /\ [][NextCallers]_vars

RECURSIVE BuildChain(_, _, _, _, _, _)
RECURSIVE BuildChainCallers(_, _, _, _, _, _, _)

\* find_call_chain.build_chain(func_name, current_chain, depth);
\* env = the tracker's files, st = [chains, visited]
BuildChain(func_name, current_chain, depth, max_depth, env, st) ==
    IF depth >= max_depth \/ Len(st.chains) >= MaxChains THEN st
    ELSE LET callers == FindCallers(func_name, env.source_files, 1, ChainStepCallers,
                                    env.unparsable, env.unreadable)
         IN  IF callers = <<>>
             THEN IF current_chain # <<>>
                  THEN [st EXCEPT !.chains = Append(@, current_chain)]
                  ELSE st
             ELSE BuildChainCallers(callers, 1, current_chain, depth, max_depth, env, st)

\* BuildChainCallers without visited.discard(caller_key) after the recursive call
MutBuildChainCallersNoDiscard(callers, i, current_chain, depth, max_depth, env, st) ==
    IF i > Len(callers) THEN st
    ELSE LET caller == callers[i]
             caller_key == FuncKey(caller.file_path, caller.name)
         IN  IF caller_key \in st.visited
             THEN BuildChainCallers(callers, i + 1, current_chain, depth, max_depth, env, st)
             ELSE BuildChainCallers(callers, i + 1, current_chain, depth, max_depth, env,
                      BuildChain(caller.name, Append(current_chain, caller),
                                 depth + 1, max_depth, env,
                                 [st EXCEPT !.visited = @ \cup {caller_key}]))

\* the loop `for caller in callers` of build_chain
BuildChainCallers(callers, i, current_chain, depth, max_depth, env, st) ==
    IF i > Len(callers) THEN st
    ELSE LET caller == callers[i]
             caller_key == FuncKey(caller.file_path, caller.name)
         IN  IF caller_key \in st.visited
             THEN BuildChainCallers(callers, i + 1, current_chain, depth, max_depth, env, st)
             ELSE LET after == BuildChain(caller.name, Append(current_chain, caller),
                                          depth + 1, max_depth, env,
                                          [st EXCEPT !.visited = @ \cup {caller_key}])
                  IN  BuildChainCallers(callers, i + 1, current_chain, depth, max_depth,
                                        env, [after EXCEPT !.visited = @ \ {caller_key}])

\* find_call_chain(function_name, file_path, max_depth): chains and visited at return
FindCallChain(function_name, max_depth, env) ==
    BuildChain(function_name, <<>>, 0, max_depth, env, [chains |-> <<>>, visited |-> {}])

InitChain ==
    /\ \E target \in TrackerTargets, files \in SeqsUpTo(FileIds, MaxChainFiles),
          d \in 0..MaxChainDepth :
          trk = [pc |-> "chain", target |-> target, source_files |-> files,
                 max_depth |-> d, unparsable |-> {}, unreadable |-> {},
                 chains |-> <<>>, visited |-> {}]
    /\ loc = Idle /\ opt = Idle /\ p2 = Idle
    /\ run = Idle /\ ph1 = Idle /\ res = Idle /\ thr = Idle
    /\ cache = Idle /\ fu = Idle /\ cm = Idle
    /\ llm = Idle /\ xl = Idle

\* one call of find_call_chain
FindCallChainCall ==
    /\ trk.pc = "chain"
    /\ LET st == FindCallChain(trk.target, trk.max_depth,
                               [source_files |-> trk.source_files,
                                unparsable |-> trk.unparsable,
                                unreadable |-> trk.unreadable])
       IN  trk' = [trk EXCEPT !.pc = "chained", !.chains = st.chains,
                              !.visited = st.visited]
    /\ UNCHANGED <<loc, opt, p2, run, ph1, res, thr, cache, fu, cm, llm, xl>>

NextChain == FindCallChainCall

SpecChain == InitChain /\ [][NextChain]_vars

(***************************************************************************)
(* Token optimizer (context/token_optimizer.py, models/context.py).        *)
(***************************************************************************)
Max(a, b) == IF a >= b THEN a ELSE b
Min(a, b) == IF a <= b THEN a ELSE b

RECURSIVE SumLensIn(_, _, _)
\* the sum of the lengths of ls[lo..hi], by halves
SumLensIn(ls, lo, hi) ==
    IF lo > hi THEN 0
    ELSE IF lo = hi THEN ls[lo].len
    ELSE LET mid == (lo + hi) \div 2
         IN  SumLensIn(ls, lo, mid) + SumLensIn(ls, mid + 1, hi)

SumLens(ls) == SumLensIn(ls, 1, Len(ls))

\* len(text) of a text held as its lines: the lines and the newlines between them
TextLen(code) == SumLens(code) + Len(code) - 1

\* "\n".join(result_lines), held as the lines split("\n") gives back: joining
\* no line at all gives the empty string, which splits into one empty line
JoinLines(ls) == IF ls = <<>> THEN <<EndLine>> ELSE ls

RECURSIVE Digits(_)
\* len(str(n)) for an integer n
Digits(n) == IF n < 0 THEN 1 + Digits(-n) ELSE IF n < 10 THEN 1 ELSE 1 + Digits(n \div 10)

\* f"// ... (省略: 行 {a} - {b})"
RangeMarker(a, b) ==
    [k |-> "mark", a |-> a, b |-> b, len |-> RangeMarkerChars + Digits(a) + Digits(b)]
\* "// ... (以下省略)"
CallerMarker == [k |-> "cmark", a |-> 0, b |-> 0, len |-> CallerMarkerChars]

\* int(x * 0.t) for t tenths: the product truncated toward zero
IntTenths(x, t) == IF x >= 0 THEN (x * t) \div 10 ELSE -(((-x) * t) \div 10)

\* _estimate_tokens(text) = len(text) // CHARS_PER_TOKEN
EstimateTokens(code) == TextLen(code) \div CHARS_PER_TOKEN

\* the greedy loops of _truncate_function and _truncate_caller over
\* lines[i..stop-1] (0-based): a line is appended while
\* current_chars + len(line) + 1 <= max_chars, and the first line that does not
\* fit ends the loop.  The running count only grows (no length is negative),
\* so the lines appended are the longest prefix whose lines and newlines fit
\* max_chars: the one prefix that fits and whose extension by a line does not.
FitLines(lines, i, stop, max_chars) ==
    LET fits(n) == SumLensIn(lines, i + 1, i + n) + n <= max_chars
        most == IF stop > i THEN stop - i ELSE 0
    IN  IF ~fits(0) THEN 0
        ELSE CHOOSE n \in 0..most : fits(n) /\ (n < most => ~fits(n + 1))

\* _truncate_function(func, focus_line, max_tokens)
TruncateFunction(func, focus_line, max_tokens) ==
    LET lines == func.code
        max_chars == max_tokens * CHARS_PER_TOKEN
        relative_line == focus_line - func.start_line
        center_start == Max(0, relative_line - FocusWindow)
        center_end == Min(Len(lines), relative_line + FocusWindow)
        taken == FitLines(lines, center_start, center_end, max_chars)
        kept == SubSeq(lines, center_start + 1, center_start + taken)
        with_start == IF center_start > 0
                      THEN <<RangeMarker(func.start_line,
                                         func.start_line + center_start - 1)>> \o kept
                      ELSE kept
        actual_end == center_start + Len(with_start)
        result_lines == IF actual_end < Len(lines)
                        THEN Append(with_start,
                                    RangeMarker(func.start_line + actual_end, func.end_line))
                        ELSE with_start
    IN  FunctionInfo(func.name, func.file_path, func.start_line + center_start,
                     func.start_line + actual_end, JoinLines(result_lines),
                     func.signature, func.return_type, func.parameters)

\* _truncate_caller(func, max_tokens): None below 50 tokens
TruncateCaller(func, max_tokens) ==
    IF max_tokens < MinCallerTokens THEN NoFunction
    ELSE LET lines == func.code
             max_chars == max_tokens * CHARS_PER_TOKEN
             taken == FitLines(lines, 0, Min(Len(lines), CallerHeadLines), max_chars)
             kept == SubSeq(lines, 1, taken)
             result_lines == IF Len(kept) < Len(lines)
                             THEN Append(kept, CallerMarker) ELSE kept
         IN  [tag |-> "info",
              info |-> FunctionInfo(func.name, func.file_path, func.start_line,
                                    func.start_line + Len(result_lines),
                                    JoinLines(result_lines), func.signature, "", <<>>)]

RECURSIVE OptimizeFunctionsFrom(_, _, _, _, _)
\* the loop as a mutant: a caller that does not fit is skipped and the scan goes on
MutOptimizeFunctionsSkips(functions, i, budget, used_tokens, result) ==
    IF i > Len(functions) THEN result
    ELSE IF used_tokens + EstimateTokens(functions[i].code) <= budget
         THEN OptimizeFunctionsFrom(functions, i + 1, budget,
                                    used_tokens + EstimateTokens(functions[i].code),
                                    Append(result, functions[i]))
         ELSE OptimizeFunctionsFrom(functions, i + 1, budget, used_tokens, result)
\* the loop of _optimize_functions from position i on
OptimizeFunctionsFrom(functions, i, budget, used_tokens, result) ==
    IF i > Len(functions) THEN result
    ELSE LET func == functions[i]
             tokens == EstimateTokens(func.code)
             remaining == budget - used_tokens
             truncated == TruncateCaller(func, remaining)
         IN  IF used_tokens + tokens <= budget
             THEN OptimizeFunctionsFrom(functions, i + 1, budget, used_tokens + tokens,
                                        Append(result, func))
             ELSE IF remaining > MinUsefulTokens /\ truncated.tag = "info"
                  THEN Append(result, truncated.info)
                  ELSE result

\* _optimize_functions(functions, budget)
OptimizeFunctions(functions, budget) ==
    OptimizeFunctionsFrom(functions, 1, budget, 0, <<>>)

RECURSIVE InsertByKey(_, _)
\* x put behind every element whose key is not larger (sorted() is stable)
InsertByKey(sorted, x) ==
    IF sorted = <<>> THEN <<x>>
    ELSE IF Head(sorted).len <= x.len THEN <<Head(sorted)>> \o InsertByKey(Tail(sorted), x)
    ELSE <<x>> \o sorted

RECURSIVE SortedByKey(_)
\* sorted(items, key=key), the key being the length of the item's text
SortedByKey(items) ==
    IF items = <<>> THEN <<>>
    ELSE InsertByKey(SortedByKey(SubSeq(items, 1, Len(items) - 1)), items[Len(items)])

\* the size _optimize_items gives an item: _estimate_tokens(str(key(item))),
\* a third of the number of digits of the length of its text
ItemTokens(item) == Digits(item.len) \div CHARS_PER_TOKEN

RECURSIVE OptimizeItemsFrom(_, _, _, _, _)
OptimizeItemsFrom(sorted_items, i, budget, used_tokens, result) ==
    IF i > Len(sorted_items) THEN result
    ELSE LET tokens == ItemTokens(sorted_items[i])
         IN  IF used_tokens + tokens <= budget
             THEN OptimizeItemsFrom(sorted_items, i + 1, budget, used_tokens + tokens,
                                    Append(result, sorted_items[i]))
             ELSE OptimizeItemsFrom(sorted_items, i + 1, budget, used_tokens, result)

\* _optimize_items(items, budget, key)
OptimizeItems(items, budget) ==
    OptimizeItemsFrom(SortedByKey(items), 1, budget, 0, <<>>)

\* AnalysisContext.estimate_tokens(); rule_len = len(rule_info.to_prompt_text()),
\* 0 without rule_info
ContextTokens(ctx) ==
    LET callers == ctx.caller_functions
        types == ctx.related_types
        macros == ctx.related_macros
    IN  ( TextLen(ctx.target_function.code)
        + SumLens([i \in DOMAIN callers |-> [len |-> TextLen(callers[i].code)]])
        + SumLens(types) + SumLens(macros) + ctx.rule_len ) \div 3

\* will_fit(context)
WillFit(ctx, max_tokens) == ContextTokens(ctx) + BASE_TOKENS <= max_tokens

\* the target unit optimize_context leaves in the context
OptimizedTarget(ctx, max_tokens) ==
    LET available_tokens == max_tokens - BASE_TOKENS
        target_budget == IntTenths(available_tokens, 6)
    IN  IF EstimateTokens(ctx.target_function.code) > target_budget
        THEN TruncateFunction(ctx.target_function, ctx.finding_line, target_budget)
        ELSE ctx.target_function

\* optimize_context(context): the fields of the context object when it returns
OptimizeContext(ctx, max_tokens) ==
    LET available_tokens == max_tokens - BASE_TOKENS
        target == OptimizedTarget(ctx, max_tokens)
        remaining == available_tokens - EstimateTokens(target.code)
        caller_budget == IntTenths(remaining, 5)
        type_budget == IntTenths(remaining, 3)
        macro_budget == IntTenths(remaining, 2)
    IN  [ctx EXCEPT
           !.target_function = target,
           !.caller_functions = IF @ # <<>> THEN OptimizeFunctions(@, caller_budget) ELSE @,
           !.related_types = IF @ # <<>> THEN OptimizeItems(@, type_budget) ELSE @,
           !.related_macros = IF @ # <<>> THEN OptimizeItems(@, macro_budget) ELSE @]

\* optimize_context(context): the budgets it computes (lines 40-67) and the
\* target's estimated size before and after the truncation
Allocation(ctx, max_tokens) ==
    LET available_tokens == max_tokens - BASE_TOKENS
        target == OptimizedTarget(ctx, max_tokens)
        target_tokens == EstimateTokens(target.code)
        remaining == available_tokens - target_tokens
    IN  [available_tokens |-> available_tokens,
         target_budget |-> IntTenths(available_tokens, 6),
         truncated |-> EstimateTokens(ctx.target_function.code)
                           > IntTenths(available_tokens, 6),
         target_tokens_before |-> EstimateTokens(ctx.target_function.code),
         target_tokens |-> target_tokens,
         remaining |-> remaining,
         caller_budget |-> IntTenths(remaining, 5),
         type_budget |-> IntTenths(remaining, 3),
         macro_budget |-> IntTenths(remaining, 2)]

(***************************************************************************)
(* Calls of the optimizer.  Contexts are objects: opt.heap maps a          *)
(* reference to the fields of the AnalysisContext it names, opt.arg is     *)
(* the reference passed to optimize_context and opt.ret the one returned.  *)
(***************************************************************************)
\* a unit of n lines of w characters each, read from line `start` of a file on
MakeUnit(name, start, n, w) ==
    FunctionInfo(name, 1, start, start + n - 1,
                 [i \in 1..n |-> SrcLine(start + i - 1, w)] \o <<EndLine>>,
                 name, "void", <<>>)

TargetShapes == {[n |-> 3, w |-> 10], [n |-> 6, w |-> 20],
                 [n |-> 60, w |-> 5], [n |-> 110, w |-> 5]}
TargetStarts == {1, 98}
\* the budget left after the fixed overhead: max_tokens - BASE_TOKENS
AvailableChoices == {-3, 0, 10, 40, 100, 300, 1000}
SmallCaller == MakeUnit("A", 1, 3, 10)
BigCaller == MakeUnit("B", 1, 40, 20)
CallerLists == {<<>>, <<SmallCaller>>, <<BigCaller>>,
                <<SmallCaller, BigCaller>>, <<BigCaller, SmallCaller>>}
\* TypeDefinition / MacroDefinition: the name and len(code) / len(definition)
Item(name, l) == [name |-> name, len |-> l]
TypeLists == {<<>>, <<Item("T1", 30)>>, <<Item("T1", 3000), Item("T2", 30)>>}
MacroLists == {<<>>, <<Item("M1", 500)>>}
RuleLens == {0, 90}

\* AnalysisContext(target_function, finding_line, rule_info, caller_functions,
\* related_types, related_macros)
AnalysisContext(target, finding_line, rule_len, callers, types, macros) ==
    [target_function |-> target, finding_line |-> finding_line, rule_len |-> rule_len,
     caller_functions |-> callers, related_types |-> types, related_macros |-> macros]

InitOptimizer ==
    /\ \E shape \in TargetShapes, start \in TargetStarts, avail \in AvailableChoices,
          callers \in CallerLists, types \in TypeLists, macros \in MacroLists,
          rule_len \in RuleLens :
          \E focus \in {0, shape.n \div 2, shape.n - 1} :
             LET ctx == AnalysisContext(MakeUnit("f", start, shape.n, shape.w),
                                        start + focus, rule_len, callers, types, macros)
             IN  opt = [pc |-> "ready", max_tokens |-> BASE_TOKENS + avail,
                        heap |-> <<ctx>>, arg |-> 1, ret |-> 0,
                        input |-> ctx, before |-> ctx, passes |-> 0]
    /\ loc = Idle /\ trk = Idle /\ p2 = Idle
    /\ run = Idle /\ ph1 = Idle /\ res = Idle /\ thr = Idle
    /\ cache = Idle /\ fu = Idle /\ cm = Idle
    /\ llm = Idle /\ xl = Idle

\* the reference optimize_context returns: `return context`, its argument
ReturnedContext(arg) == arg

\* optimized = self.token_optimizer.optimize_context(context)
OptimizeContextCall ==
    /\ opt.pc \in {"ready", "optimized"}
    /\ opt.passes < MaxPasses
    /\ opt' = [opt EXCEPT
                 !.pc = "optimized",
                 !.before = opt.heap[opt.arg],
                 !.heap[opt.arg] = OptimizeContext(opt.heap[opt.arg], opt.max_tokens),
                 !.ret = ReturnedContext(opt.arg),
                 !.passes = @ + 1]
    /\ UNCHANGED <<loc, trk, p2, run, ph1, res, thr, cache, fu, cm, llm, xl>>

NextOptimizer == OptimizeContextCall

SpecOptimizer == InitOptimizer /\ [][NextOptimizer]_vars

(***************************************************************************)
(* Claims about the optimizer.                                             *)
(***************************************************************************)
OptTargetBudget == IntTenths(opt.max_tokens - BASE_TOKENS, 6)

\* the first pass truncated the target unit
FirstPassTruncated ==
    /\ opt.pc = "optimized" /\ opt.passes = 1
    /\ EstimateTokens(opt.input.target_function.code) > OptTargetBudget

\* C2: after optimize_context the context's estimated size plus BASE_TOKENS is
\* within the budget (will_fit holds), unless the target unit alone, as
\* optimize_context left it, already exceeds the budget.
C2_OptimizedContextFits ==
    (opt.pc = "optimized" /\ opt.passes = 1) =>
        LET ctx == opt.heap[opt.arg]
        IN  EstimateTokens(ctx.target_function.code) + BASE_TOKENS <= opt.max_tokens
            => WillFit(ctx, opt.max_tokens)

IsFocusLine(l) == l.k = "src" /\ l.a = opt.input.finding_line

\* C3: when _truncate_function truncates a target whose focus line lies within
\* its span, with a character budget above zero (here even: with a budget the
\* focus line fits in on its own), the truncated text holds the focus line
\* unaltered, inside a contiguous block of original lines.
C3_FocusLinePreserved ==
    LET unit == opt.input.target_function
        focus == unit.code[opt.input.finding_line - unit.start_line + 1]
        out == opt.heap[opt.arg].target_function.code
    IN  ( /\ FirstPassTruncated
          /\ unit.start_line <= opt.input.finding_line
          /\ opt.input.finding_line <= unit.end_line
          /\ focus.len + 1 <= OptTargetBudget * CHARS_PER_TOKEN )
        => /\ \E i \in DOMAIN out : out[i] = focus
           /\ \A i, j \in DOMAIN out :
                 (i < j /\ out[i].k = "src" /\ out[j].k = "src")
                 => out[j].a = out[i].a + (j - i)

\* C4: optimize_context is idempotent for a fixed budget: a second pass changes
\* neither the size nor the target text, the callers, the types or the macros.
C4_SecondPassNoOp ==
    (opt.pc = "optimized" /\ opt.passes = 2) =>
        LET first == opt.before
            second == opt.heap[opt.arg]
        IN  /\ ContextTokens(second) = ContextTokens(first)
            /\ second.target_function.code = first.target_function.code
            /\ second.caller_functions = first.caller_functions
            /\ second.related_types = first.related_types
            /\ second.related_macros = first.related_macros

\* C8: optimize_context returns a new AnalysisContext and leaves the context
\* passed to it unchanged.
C8_ArgumentUnchanged ==
    (opt.pc = "optimized" /\ opt.passes = 1) =>
        /\ opt.ret # opt.arg
        /\ opt.heap[opt.arg] = opt.input

\* C20: optimize_context gives the target floor(60%) of B - O, truncates it
\* only when its estimated size exceeds that, gives callers, types and macros
\* floor(50%), floor(30%) and floor(20%) of what B - O leaves after the
\* target, and so the target's size after truncation plus the three
\* allocations never exceeds B - O.
C20_AllocationWithinBudget ==
    opt.pc = "optimized" =>
        LET a == Allocation(opt.before, opt.max_tokens)
            available == opt.max_tokens - BASE_TOKENS
            remainder == available - a.target_tokens
        IN  /\ a.target_budget = (available * 6) \div 10
            /\ a.truncated <=> a.target_tokens_before > (available * 6) \div 10
            /\ ~a.truncated => a.target_tokens = a.target_tokens_before
            /\ a.target_tokens =
                   EstimateTokens(opt.heap[opt.arg].target_function.code)
            /\ a.caller_budget = (remainder * 5) \div 10
            /\ a.type_budget = (remainder * 3) \div 10
            /\ a.macro_budget = (remainder * 2) \div 10
            /\ a.target_tokens + a.caller_budget + a.type_budget + a.macro_budget
                   <= available

\* the estimated size of the first k units of a list
TokensOfFirst(functions, k) ==
    SumLens([i \in 1..k |-> [len |-> EstimateTokens(functions[i].code)]])

\* the callers that fit whole before the first one that does not
WholeCallers(functions, budget) ==
    CHOOSE k \in 0..Len(functions) :
        /\ \A j \in 1..k : TokensOfFirst(functions, j) <= budget
        /\ k < Len(functions) => TokensOfFirst(functions, k + 1) > budget

\* `copy` is a truncated copy of `func`: leading lines of it and the marker
IsTruncatedCopyOf(copy, func) ==
    /\ copy.name = func.name /\ copy.file_path = func.file_path
    /\ copy.start_line = func.start_line
    /\ Len(copy.code) <= Len(func.code)
    /\ copy.code[Len(copy.code)] = CallerMarker
    /\ \A i \in 1..(Len(copy.code) - 1) : copy.code[i] = func.code[i]

\* C21: the callers _optimize_functions returns are the input callers that fit
\* whole before the first one that does not, unmodified and in their order,
\* followed by a truncated copy of that first one exactly when the budget
\* left for it exceeds 100; no caller behind it is returned.
C21_CallersArePrefix ==
    (opt.pc = "optimized" /\ opt.before.caller_functions # <<>>) =>
        LET given == opt.before.caller_functions
            kept == opt.heap[opt.arg].caller_functions
            budget == Allocation(opt.before, opt.max_tokens).caller_budget
            k == WholeCallers(given, budget)
            substituted == k < Len(given)
                           /\ budget - TokensOfFirst(given, k) > MinUsefulTokens
        IN  /\ Len(kept) = IF substituted THEN k + 1 ELSE k
            /\ \A i \in 1..k : kept[i] = given[i]
            /\ substituted => IsTruncatedCopyOf(kept[k + 1], given[k + 1])

\* the small caller is kept whole and the big one, which does not fit the 133
\* units left, is cut to its first lines and the marker
C21_Witness ==
    /\ opt.pc = "optimized" /\ opt.passes = 1
    /\ opt.before.caller_functions = <<SmallCaller, BigCaller>>
    /\ Allocation(opt.before, opt.max_tokens).caller_budget = 144
    /\ Len(opt.heap[opt.arg].caller_functions) = 2
    /\ opt.heap[opt.arg].caller_functions[1] = SmallCaller
    /\ opt.heap[opt.arg].caller_functions[2] # BigCaller
    /\ IsTruncatedCopyOf(opt.heap[opt.arg].caller_functions[2], BigCaller)

\* the items of a category are kept within `budget`: in ascending order of the
\* length of their text, each one an item that was given, and with the
\* estimated sizes of their texts (characters / 3) adding up to the budget at most
KeptWithinBudget(given, kept, budget) ==
    /\ \A i \in DOMAIN kept : \E j \in DOMAIN given : kept[i] = given[j]
    /\ \A i, j \in DOMAIN kept : i < j => kept[i].len <= kept[j].len
    /\ kept # <<>> =>
          SumLens([i \in DOMAIN kept |-> [len |-> kept[i].len \div CHARS_PER_TOKEN]])
              <= budget

\* C22: _optimize_items keeps types and macros smallest first and all or
\* nothing, and the estimated size of the kept types (macros) never exceeds
\* the type (macro) budget.
C22_ItemsWithinBudget ==
    opt.pc = "optimized" =>
        LET a == Allocation(opt.before, opt.max_tokens)
        IN  /\ opt.before.related_types # <<>> =>
                  KeptWithinBudget(opt.before.related_types,
                                   opt.heap[opt.arg].related_types, a.type_budget)
            /\ opt.before.related_macros # <<>> =>
                  KeptWithinBudget(opt.before.related_macros,
                                   opt.heap[opt.arg].related_macros, a.macro_budget)

(***************************************************************************)
(* Context builder, Phase 2 (context/context_builder.py).                  *)
(***************************************************************************)
\* extract_function_with_context: the pseudo unit of the lines around `line`
\* that stands for the target when no function is found
ContextWindow(file, line, context_lines) ==
    LET start == Max(0, line - context_lines - 1)
        end == Min(FileLineCount(file), line + context_lines)
    IN  FunctionInfo("<context>", file, start + 1, end,
                     ReadSourceRange(file, start + 1, end), "", "", <<>>)

\* IsRealFunction without the test of the sentinel name
MutIsRealFunctionAlways(target) == TRUE

\* `phase1_context.target_function.name != "<context>"`
IsRealFunction(target) == target.name # "<context>"

\* One enrichment step that raised: every collection is reset, not only its own
MutEnrichResetsAll(ctx, field, outcome) ==
    IF outcome.raised
    THEN [ctx EXCEPT !.caller_functions = <<>>, !.related_types = <<>>,
                     !.related_macros = <<>>]
    ELSE [ctx EXCEPT ![field] = outcome.value]

\* try: context.<field> = <lookup>  except Exception: log
\* the assignment happens only when the lookup returned
Enrich(ctx, field, outcome) ==
    IF outcome.raised THEN ctx ELSE [ctx EXCEPT ![field] = outcome.value]

Returned(value) == [raised |-> FALSE, value |-> value]
Raised == [raised |-> TRUE, value |-> <<>>]

\* The Phase 1 targets Phase 2 is built from: units of functions of the file
\* library and line windows; the finding's file is the unit's file.
Phase1Targets ==
    { ExtractFunctionInfo(File1.children[1], 1, {}).info,
      ExtractFunctionInfo(File1.children[2], 1, {}).info,
      ExtractFunctionInfo(File3.children[3], 3, {}).info,
      ContextWindow(1, 9, ContextLines),
      ContextWindow(3, 2, ContextLines) }

Phase2FileLists == {<<1, 2, 3>>, <<3, 1>>, <<>>}

\* what the symbol resolver answers when it does not raise
ResolvedTypeLists == {<<>>, <<Item("T1", 30)>>, <<Item("T1", 30), Item("T2", 40)>>}
ResolvedMacroLists == {<<>>, <<Item("M1", 12)>>}

InitPhase2 ==
    /\ \E target \in Phase1Targets, files \in Phase2FileLists, rule_len \in RuleLens,
          raising \in SUBSET {"callers", "types", "macros"},
          types \in ResolvedTypeLists, macros \in ResolvedMacroLists :
          p2 = [pc |-> "create",
                phase1 |-> AnalysisContext(target, target.start_line, rule_len,
                                           <<>>, <<>>, <<>>),
                source_files |-> files, raising |-> raising,
                types |-> types, macros |-> macros,
                found |-> <<>>, context |-> <<>>, attempted |-> {}]
    /\ loc = Idle /\ trk = Idle /\ opt = Idle
    /\ run = Idle /\ ph1 = Idle /\ res = Idle /\ thr = Idle
    /\ cache = Idle /\ fu = Idle /\ cm = Idle
    /\ llm = Idle /\ xl = Idle

\* context = AnalysisContext(target_function=..., finding_line=..., rule_info=...)
Phase2Create ==
    /\ p2.pc = "create"
    /\ p2' = [p2 EXCEPT
                !.pc = "callers",
                !.context = AnalysisContext(p2.phase1.target_function,
                                            p2.phase1.finding_line,
                                            p2.phase1.rule_len, <<>>, <<>>, <<>>)]
    /\ UNCHANGED <<loc, trk, opt, run, ph1, res, thr, cache, fu, cm, llm, xl>>

\* the caller lookup, made for a real function only
Phase2Callers ==
    /\ p2.pc = "callers"
    /\ IF IsRealFunction(p2.phase1.target_function)
       THEN LET found == FindCallers(p2.phase1.target_function.name, p2.source_files,
                                     1, DefaultMaxCallers, {}, {})
                outcome == IF "callers" \in p2.raising THEN Raised ELSE Returned(found)
            IN  p2' = [p2 EXCEPT
                         !.pc = "types",
                         !.attempted = @ \cup {"callers"},
                         !.found = found,
                         !.context = Enrich(@, "caller_functions", outcome)]
       ELSE p2' = [p2 EXCEPT !.pc = "types"]
    /\ UNCHANGED <<loc, trk, opt, run, ph1, res, thr, cache, fu, cm, llm, xl>>

\* the type lookup
Phase2Types ==
    /\ p2.pc = "types"
    /\ p2' = [p2 EXCEPT
                !.pc = "macros",
                !.attempted = @ \cup {"types"},
                !.context = Enrich(@, "related_types",
                                   IF "types" \in p2.raising THEN Raised
                                   ELSE Returned(p2.types))]
    /\ UNCHANGED <<loc, trk, opt, run, ph1, res, thr, cache, fu, cm, llm, xl>>

\* the macro lookup
Phase2Macros ==
    /\ p2.pc = "macros"
    /\ p2' = [p2 EXCEPT
                !.pc = "return",
                !.attempted = @ \cup {"macros"},
                !.context = Enrich(@, "related_macros",
                                   IF "macros" \in p2.raising THEN Raised
                                   ELSE Returned(p2.macros))]
    /\ UNCHANGED <<loc, trk, opt, run, ph1, res, thr, cache, fu, cm, llm, xl>>

\* return context
Phase2Return ==
    /\ p2.pc = "return"
    /\ p2' = [p2 EXCEPT !.pc = "returned"]
    /\ UNCHANGED <<loc, trk, opt, run, ph1, res, thr, cache, fu, cm, llm, xl>>

NextPhase2 ==
    \/ Phase2Create
    \/ Phase2Callers
    \/ Phase2Types
    \/ Phase2Macros
    \/ Phase2Return

SpecPhase2 == InitPhase2 /\ [][NextPhase2]_vars

(***************************************************************************)
(* Claims about Phase 2.                                                   *)
(***************************************************************************)
\* C9: build_phase2_context never calls the caller tracker when the target is
\* the line-window fallback; the context returned has no callers, and the type
\* and macro lookups are still made.
C9_NoCallerLookupForWindow ==
    p2.pc # "idle" /\ p2.phase1.target_function.name = "<context>" =>
        /\ "callers" \notin p2.attempted
        /\ p2.pc = "returned" =>
              /\ p2.context.caller_functions = <<>>
              /\ {"types", "macros"} \subseteq p2.attempted

\* C9's case: a line-window target whose context is returned with types and
\* macros and without callers.
C9_Witness ==
    /\ p2.pc = "returned"
    /\ p2.phase1.target_function.name = "<context>"
    /\ p2.raising = {}
    /\ p2.context.related_types # <<>>
    /\ p2.context.related_macros # <<>>
    /\ p2.context.caller_functions = <<>>

\* C10: in build_phase2_context a failure of one lookup empties that category
\* only: the other lookups are made and keep their results, target, finding
\* line and rule text are those of Phase 1, and a context is returned.
C10_IndependentLookups ==
    p2.pc = "returned" =>
        LET real == IsRealFunction(p2.phase1.target_function)
        IN  /\ p2.attempted = {"types", "macros"} \cup (IF real THEN {"callers"} ELSE {})
            /\ p2.context.caller_functions =
                  (IF real /\ "callers" \notin p2.raising THEN p2.found ELSE <<>>)
            /\ p2.context.related_types =
                  (IF "types" \in p2.raising THEN <<>> ELSE p2.types)
            /\ p2.context.related_macros =
                  (IF "macros" \in p2.raising THEN <<>> ELSE p2.macros)
            /\ p2.context.target_function = p2.phase1.target_function
            /\ p2.context.finding_line = p2.phase1.finding_line
            /\ p2.context.rule_len = p2.phase1.rule_len

\* C10's case: the type lookup raises between a caller lookup and a macro
\* lookup that both found something, and the context is returned with them.
C10_Witness ==
    /\ p2.pc = "returned"
    /\ p2.raising = {"types"}
    /\ p2.context.caller_functions # <<>>
    /\ p2.context.related_types = <<>>
    /\ p2.types # <<>>
    /\ p2.context.related_macros # <<>>

(***************************************************************************)
(* Symbol resolver (analyzer/symbol_resolver.py).  A snippet is the set of *)
(* its words, the maximal runs of [A-Za-z0-9_]: both patterns are wrapped  *)
(* in \b...\b and consume word characters only, so re.findall yields whole *)
(* words.  Letters gives the characters of each word of the vocabulary.    *)
(***************************************************************************)
STD_TYPES ==
    {"String", "Vector", "Map", "Set", "List", "Array",
     "int8_t", "int16_t", "int32_t", "int64_t",
     "uint8_t", "uint16_t", "uint32_t", "uint64_t",
     "size_t", "ptrdiff_t", "nullptr_t", "bool", "char",
     "short", "int", "long", "float", "double", "void",
     "string", "vector", "map", "set", "list", "array"}

COMMON_MACROS ==
    {"TRUE", "FALSE", "NULL", "EOF", "EXIT_SUCCESS", "EXIT_FAILURE",
     "UINT8_MAX", "UINT16_MAX", "UINT32_MAX", "UINT64_MAX",
     "INT8_MIN", "INT16_MIN", "INT32_MIN", "INT64_MIN",
     "INT8_MAX", "INT16_MAX", "INT32_MAX", "INT64_MAX",
     "SIZE_MAX", "PTRDIFF_MAX", "PTRDIFF_MIN"}

Letters ==
    ("MotorSpeedLimit" :> <<"M", "o", "t", "o", "r", "S", "p", "e", "e", "d", "L", "i", "m", "i", "t">>) @@
    ("uint32_t" :> <<"u", "i", "n", "t", "3", "2", "_", "t">>) @@
    ("speed_t" :> <<"s", "p", "e", "e", "d", "_", "t">>) @@
    ("Vector" :> <<"V", "e", "c", "t", "o", "r">>) @@
    ("Cfg" :> <<"C", "f", "g">>) @@
    ("myType" :> <<"m", "y", "T", "y", "p", "e">>) @@
    ("MAX_SPEED" :> <<"M", "A", "X", "_", "S", "P", "E", "E", "D">>) @@
    ("NULL" :> <<"N", "U", "L", "L">>) @@
    ("ID" :> <<"I", "D">>) @@
    ("TRUE" :> <<"T", "R", "U", "E">>) @@
    ("LIMIT" :> <<"L", "I", "M", "I", "T">>)

Words == DOMAIN Letters

UpperCase == {"A", "B", "C", "D", "E", "F", "G", "H", "I", "J", "K", "L", "M",
              "N", "O", "P", "Q", "R", "S", "T", "U", "V", "W", "X", "Y", "Z"}
LowerCase == {"a", "b", "c", "d", "e", "f", "g", "h", "i", "j", "k", "l", "m",
              "n", "o", "p", "q", "r", "s", "t", "u", "v", "w", "x", "y", "z"}
DigitChars == {"0", "1", "2", "3", "4", "5", "6", "7", "8", "9"}

AllIn(w, from, to, class) == \A i \in from..to : w[i] \in class

\* \b([A-Z][A-Za-z0-9_]*|[a-z][a-z0-9_]*_t)\b on a whole word
MatchesTypePattern(w) ==
    /\ Len(w) >= 1
    /\ \/ /\ w[1] \in UpperCase
          /\ AllIn(w, 2, Len(w), UpperCase \cup LowerCase \cup DigitChars \cup {"_"})
       \/ /\ w[1] \in LowerCase
          /\ Len(w) >= 3
          /\ AllIn(w, 2, Len(w) - 2, LowerCase \cup DigitChars \cup {"_"})
          /\ w[Len(w) - 1] = "_" /\ w[Len(w)] = "t"

\* \b([A-Z][A-Z0-9_]+)\b on a whole word
MatchesMacroPattern(w) ==
    /\ Len(w) >= 2
    /\ w[1] \in UpperCase
    /\ AllIn(w, 2, Len(w), UpperCase \cup DigitChars \cup {"_"})

\* _extract_type_names without the exclusion of the standard types
MutExtractTypeNamesUnfiltered(code) ==
    {m \in code : MatchesTypePattern(Letters[m])}

\* _extract_type_names
ExtractTypeNames(code) ==
    {m \in code : MatchesTypePattern(Letters[m]) /\ m \notin STD_TYPES}

\* _extract_macro_names
ExtractMacroNames(code) ==
    {m \in code : MatchesMacroPattern(Letters[m])
                  /\ m \notin COMMON_MACROS /\ Len(Letters[m]) > 2}

\* cursors of the translation units the resolver searches
TypeNode(kind, name, s, e, isDef, file, ch) == Node(kind, name, s, e, isDef, file, ch)
MacroNode(name, l, tokens, file) ==
    [kind |-> "MACRO_DEFINITION", spelling |-> name, start |-> l, end |-> l,
     isDef |-> TRUE, file |-> file, children |-> <<>>, tokens |-> tokens]

\* macros (one defined twice, one without tokens first), a forward
\* declaration before the definition inside a namespace, a class with a
\* nested enum of the same name, typedefs and a variable
ResolverUnit1 ==
    TU(20, <<
        MacroNode("MAX_SPEED", 1, 2, "same"),
        MacroNode("NULL", 2, 2, "other"),
        MacroNode("ID", 3, 2, "same"),
        MacroNode("MAX_SPEED", 4, 2, "same"),
        MacroNode("LIMIT", 5, 0, "same"),
        MacroNode("LIMIT", 6, 3, "none"),
        TypeNode("TYPEDEF_DECL", "uint32_t", 7, 7, TRUE, "other", <<>>),
        TypeNode("STRUCT_DECL", "MotorSpeedLimit", 8, 8, FALSE, "same", <<>>),
        TypeNode("NAMESPACE", "ns", 9, 15, TRUE, "same", <<
            TypeNode("STRUCT_DECL", "MotorSpeedLimit", 10, 12, TRUE, "same", <<>>),
            TypeNode("CLASS_DECL", "Cfg", 13, 15, TRUE, "same", <<
                TypeNode("ENUM_DECL", "Cfg", 14, 14, TRUE, "same", <<>>)>>)>>),
        TypeNode("TYPEDEF_DECL", "speed_t", 16, 16, TRUE, "same", <<>>),
        TypeNode("VAR_DECL", "Vector", 17, 17, TRUE, "same", <<>>),
        TypeNode("TYPE_ALIAS_DECL", "myType", 18, 18, TRUE, "same", <<>>)>>)

\* a type whose first definition has no file, declarations only, a function
\* and a variable named like candidates, and a macro below a namespace
ResolverUnit2 ==
    TU(12, <<
        TypeNode("STRUCT_DECL", "Cfg", 1, 2, TRUE, "none", <<>>),
        TypeNode("STRUCT_DECL", "Cfg", 3, 4, TRUE, "other", <<>>),
        TypeNode("CLASS_DECL", "MotorSpeedLimit", 5, 5, FALSE, "same", <<>>),
        TypeNode("FUNCTION_DECL", "LIMIT", 6, 7, TRUE, "same", <<>>),
        TypeNode("NAMESPACE", "ns", 8, 10, TRUE, "same", <<
            MacroNode("MAX_SPEED", 9, 2, "same")>>),
        TypeNode("CLASS_TEMPLATE", "MAX_SPEED", 11, 11, TRUE, "same", <<>>),
        MacroNode("LIMIT", 12, 4, "same")>>)

ResolverUnits == <<ResolverUnit1, ResolverUnit2>>

TypeCursorKinds ==
    {"CLASS_DECL", "STRUCT_DECL", "ENUM_DECL", "TYPEDEF_DECL", "TYPE_ALIAS_DECL",
     "CLASS_TEMPLATE"}

\* kind_map.get(cursor.kind, "unknown")
KindMap(kind) ==
    CASE kind = "CLASS_DECL" -> "class"
      [] kind = "STRUCT_DECL" -> "struct"
      [] kind = "ENUM_DECL" -> "enum"
      [] kind = "TYPEDEF_DECL" -> "typedef"
      [] kind = "TYPE_ALIAS_DECL" -> "using"
      [] kind = "CLASS_TEMPLATE" -> "template class"
      [] OTHER -> "unknown"

NoDefinition == [tag |-> "none"]

\* TypeDefinition(name, kind, code, file_path, line); the code is the range
\* of lines read from the file of the cursor
TypeDefinition(name, kind, code, file_path, line) ==
    [tag |-> "type", name |-> name, kind |-> kind, code |-> code,
     file_path |-> file_path, line |-> line]

\* _cursor_to_type_definition: None without a file or when it cannot be read
CursorToTypeDefinition(cursor, unreadable) ==
    IF cursor.file = "none" \/ cursor.file \in unreadable THEN NoDefinition
    ELSE TypeDefinition(cursor.spelling, KindMap(cursor.kind),
                        [from |-> cursor.start, to |-> cursor.end],
                        cursor.file, cursor.start)

RECURSIVE FindTypeDef(_, _, _, _, _)
RECURSIVE FindTypeDefChildren(_, _, _, _, _, _)
\* find_types_in_function.find_type_def
FindTypeDef(cursor, type_candidates, max_types, unreadable, st) ==
    IF Len(st.type_definitions) >= max_types THEN st
    ELSE LET type_def == CursorToTypeDefinition(cursor, unreadable)
             st1 == IF /\ cursor.spelling \in type_candidates
                       /\ cursor.spelling \notin st.found_types
                       /\ cursor.kind \in TypeCursorKinds
                       /\ cursor.isDef
                       /\ type_def.tag = "type"
                    THEN [type_definitions |-> Append(st.type_definitions, type_def),
                          found_types |-> st.found_types \cup {cursor.spelling}]
                    ELSE st
         IN  FindTypeDefChildren(cursor.children, 1, type_candidates, max_types,
                                 unreadable, st1)

FindTypeDefChildren(children, i, type_candidates, max_types, unreadable, st) ==
    IF i > Len(children) THEN st
    ELSE FindTypeDefChildren(children, i + 1, type_candidates, max_types, unreadable,
             FindTypeDef(children[i], type_candidates, max_types, unreadable, st))

\* find_types_in_function
FindTypesInFunction(function_code, tu, parse_ok, max_types, unreadable) ==
    LET type_candidates == ExtractTypeNames(function_code)
    IN  IF type_candidates = {} \/ ~parse_ok THEN <<>>
        ELSE FindTypeDef(tu, type_candidates, max_types, unreadable,
                         [type_definitions |-> <<>>, found_types |-> {}]).type_definitions

\* MacroDefinition(name, definition, file_path, line, is_function_like); the
\* definition is the number of tokens joined, file_path "" without a file
MacroDefinition(name, tokens, file_path, line) ==
    [tag |-> "macro", name |-> name, tokens |-> tokens, file_path |-> file_path,
     line |-> line]

\* _cursor_to_macro_definition: None for a cursor without tokens
CursorToMacroDefinition(cursor) ==
    IF cursor.tokens = 0 THEN NoDefinition
    ELSE MacroDefinition(cursor.spelling, cursor.tokens,
                         IF cursor.file = "none" THEN "" ELSE cursor.file, cursor.start)

\* The scan without the set of names found
MutScanMacrosNoFound(children, i, macro_candidates, max_macros, st) ==
    IF i > Len(children) \/ Len(st.macros) >= max_macros THEN st
    ELSE LET cursor == children[i]
             macro_def == CursorToMacroDefinition(cursor)
             st1 == [st EXCEPT !.examined = Append(@, i)]
         IN  IF /\ cursor.kind = "MACRO_DEFINITION"
                /\ cursor.spelling \in macro_candidates
                /\ macro_def.tag = "macro"
             THEN [st1 EXCEPT !.macros = Append(@, macro_def)]
             ELSE st1

\* find_macros_in_code: one turn of `for cursor in tu.cursor.get_children()`;
\* st.examined lists the children the loop body was run for
ScanMacros(children, i, macro_candidates, max_macros, st) ==
    IF i > Len(children) \/ Len(st.macros) >= max_macros THEN st
    ELSE LET cursor == children[i]
             st1 == [st EXCEPT !.examined = Append(@, i)]
         IN  IF /\ cursor.kind = "MACRO_DEFINITION"
                /\ cursor.spelling \in macro_candidates
                /\ cursor.spelling \notin st.found_macros
                /\ CursorToMacroDefinition(cursor).tag = "macro"
             THEN [st1 EXCEPT !.macros = Append(@, CursorToMacroDefinition(cursor)),
                              !.found_macros = @ \cup {cursor.spelling}]
             ELSE st1

RECURSIVE ScanMacrosFrom(_, _, _, _, _)
ScanMacrosFrom(children, i, macro_candidates, max_macros, st) ==
    IF i > Len(children) \/ Len(st.macros) >= max_macros THEN st
    ELSE ScanMacrosFrom(children, i + 1, macro_candidates, max_macros,
                        ScanMacros(children, i, macro_candidates, max_macros, st))

\* find_macros_in_code: the state of the scan when it ends
FindMacrosScan(code, tu, parse_ok, max_macros) ==
    LET macro_candidates == ExtractMacroNames(code)
        st == [macros |-> <<>>, found_macros |-> {}, examined |-> <<>>]
    IN  IF macro_candidates = {} \/ ~parse_ok THEN st
        ELSE ScanMacrosFrom(tu.children, 1, macro_candidates, max_macros, st)

FindMacrosInCode(code, tu, parse_ok, max_macros) ==
    FindMacrosScan(code, tu, parse_ok, max_macros).macros

\* the snippets searched: up to MaxSnippetWords words of the vocabulary
Snippets == {c \in SUBSET Words : Cardinality(c) <= MaxSnippetWords}

InitResolver ==
    /\ \E code \in Snippets, tu \in DOMAIN ResolverUnits, parse_ok \in BOOLEAN,
          max_items \in 0..MaxItemsArg, unreadable \in SUBSET {"same", "other"} :
          res = [pc |-> "call", code |-> code, tu |-> tu, parse_ok |-> parse_ok,
                 max_items |-> max_items, unreadable |-> unreadable,
                 types |-> <<>>, macros |-> <<>>, examined |-> <<>>]
    /\ loc = Idle /\ trk = Idle /\ opt = Idle /\ p2 = Idle
    /\ run = Idle /\ ph1 = Idle /\ thr = Idle
    /\ cache = Idle /\ fu = Idle /\ cm = Idle
    /\ llm = Idle /\ xl = Idle

FindTypesInFunctionCall ==
    /\ res.pc = "call"
    /\ res' = [res EXCEPT
                 !.pc = "types_done",
                 !.types = FindTypesInFunction(res.code, ResolverUnits[res.tu],
                                               res.parse_ok, res.max_items,
                                               res.unreadable)]
    /\ UNCHANGED <<loc, trk, opt, p2, run, ph1, thr, cache, fu, cm, llm, xl>>

FindMacrosInCodeCall ==
    /\ res.pc = "call"
    /\ LET scan == FindMacrosScan(res.code, ResolverUnits[res.tu], res.parse_ok,
                                  res.max_items)
       IN  res' = [res EXCEPT !.pc = "macros_done",
                              !.macros = FindMacrosInCode(res.code, ResolverUnits[res.tu],
                                                          res.parse_ok, res.max_items),
                              !.examined = scan.examined]
    /\ UNCHANGED <<loc, trk, opt, p2, run, ph1, thr, cache, fu, cm, llm, xl>>

NextResolver ==
    \/ FindTypesInFunctionCall
    \/ FindMacrosInCodeCall

SpecResolver == InitResolver /\ [][NextResolver]_vars

(***************************************************************************)
(* Claims about the symbol resolver.                                       *)
(***************************************************************************)
RECURSIVE CursorsOf(_)
\* every cursor of a tree
CursorsOf(n) == {n} \cup UNION {CursorsOf(n.children[i]) : i \in DOMAIN n.children}

DistinctNames(items) ==
    \A i, j \in DOMAIN items : i # j => items[i].name # items[j].name

\* C13: every TypeDefinition find_types_in_function returns has a name that is
\* an identifier-pattern match of the snippet outside STD_TYPES and comes from
\* a definition node of kind class/struct/enum/typedef/alias/class template;
\* the names are pairwise distinct and at most max_types are returned.
C13_TypesConfirmedByAst ==
    res.pc = "types_done" =>
        /\ \A i \in DOMAIN res.types :
              LET t == res.types[i]
              IN  /\ t.name \in res.code
                  /\ MatchesTypePattern(Letters[t.name])
                  /\ t.name \notin STD_TYPES
                  /\ \E c \in CursorsOf(ResolverUnits[res.tu]) :
                        /\ c.spelling = t.name /\ c.start = t.line
                        /\ c.kind \in TypeCursorKinds /\ c.isDef
        /\ DistinctNames(res.types)
        /\ Len(res.types) <= res.max_items

\* C13's scenario: "uint32_t" and "MotorSpeedLimit" are both in the snippet and
\* both defined in the translation unit; only MotorSpeedLimit is returned, from
\* its definition and not from its forward declaration.
C13_Witness ==
    /\ res.pc = "types_done"
    /\ res.tu = 1
    /\ res.code = {"uint32_t", "MotorSpeedLimit"}
    /\ Len(res.types) = 1
    /\ res.types[1].name = "MotorSpeedLimit" /\ res.types[1].line = 10

\* C14: every MacroDefinition find_macros_in_code returns comes from a macro
\* definition that is a direct child of the root, named by a word of the
\* snippet longer than 2 characters and outside COMMON_MACROS; the names are
\* pairwise distinct, at most max_macros are returned and the scan stops as
\* soon as the cap is reached.
C14_MacrosFromRootChildren ==
    res.pc = "macros_done" =>
        LET root == ResolverUnits[res.tu]
            n == Len(res.macros)
        IN  /\ \A i \in DOMAIN res.macros :
                  LET m == res.macros[i]
                  IN  /\ m.name \in res.code
                      /\ Len(Letters[m.name]) > 2
                      /\ m.name \notin COMMON_MACROS
                      /\ \E k \in DOMAIN root.children :
                            /\ root.children[k].kind = "MACRO_DEFINITION"
                            /\ root.children[k].spelling = m.name
                            /\ root.children[k].start = m.line
            /\ DistinctNames(res.macros)
            /\ n <= res.max_items
            /\ res.max_items = 0 => res.examined = <<>>
            /\ (n = res.max_items /\ n > 0) =>
                  root.children[res.examined[Len(res.examined)]].start = res.macros[n].line

\* C14's case: the cap of one macro is reached at the first child, a macro
\* defined twice, and the scan examines no other child.
C14_Witness ==
    /\ res.pc = "macros_done"
    /\ res.tu = 1
    /\ res.max_items = 1
    /\ "MAX_SPEED" \in res.code
    /\ Len(res.macros) = 1 /\ res.macros[1].name = "MAX_SPEED"
    /\ res.examined = <<1>>

(***************************************************************************)
(* Translation-unit cache (analyzer/clang_analyzer.py): get_translation_   *)
(* unit and clear_cache on one ClangAnalyzer shared by threads.  A         *)
(* translation unit is named by the number of the parse that made it; a    *)
(* cache without an entry for a key maps the key to NoEntry.               *)
(***************************************************************************)
\* os.path.abspath(file_path), the working directory being /w
AbsPath(file_path) ==
    CASE file_path \in {"a.cpp", "./a.cpp", "/w/a.cpp"} -> "/w/a.cpp"
      [] file_path \in {"b.cpp", "/w/b.cpp"} -> "/w/b.cpp"
      [] OTHER -> file_path

\* The key without the body-parsing mode
MutCacheKeyPathOnly(file_path, skip_function_bodies) == <<AbsPath(file_path), TRUE>>

\* cache_key = f"{abs_path}:{skip_function_bodies}"
CacheKey(file_path, skip_function_bodies) == <<AbsPath(file_path), skip_function_bodies>>

NoEntry == 0
CacheKeys == {"/w/a.cpp", "/w/b.cpp"} \X BOOLEAN
EmptyCache == [k \in CacheKeys |-> NoEntry]

GetCall(file_path, skip_function_bodies, force_reparse) ==
    [op |-> "get", file_path |-> file_path, skip |-> skip_function_bodies,
     force |-> force_reparse]
ClearCall == [op |-> "clear", file_path |-> "", skip |-> FALSE, force |-> FALSE]

\* the calls the threads make
ThreadCalls ==
    {GetCall(f, TRUE, force) : f \in {"a.cpp", "/w/a.cpp"}, force \in BOOLEAN}
    \cup {GetCall("b.cpp", TRUE, FALSE), ClearCall}

Threads == 1..NThreads
Unlocked == 0

InitThreads ==
    /\ \E calls \in [Threads -> ThreadCalls] :
          thr = [pc |-> [t \in Threads |-> "start"], call |-> calls,
                 lock |-> Unlocked, translation_units |-> EmptyCache,
                 tu |-> [t \in Threads |-> NoEntry],
                 ret |-> [t \in Threads |-> NoEntry],
                 parses |-> 0, writes |-> <<>>]
    /\ loc = Idle /\ trk = Idle /\ opt = Idle /\ p2 = Idle
    /\ run = Idle /\ ph1 = Idle /\ res = Idle
    /\ cache = Idle /\ fu = Idle /\ cm = Idle
    /\ llm = Idle /\ xl = Idle

ThreadKey(t) == CacheKey(thr.call[t].file_path, thr.call[t].skip)

\* what follows a successful parse: the lock is not taken for the write
MutAfterParseNoLock(ok) == IF ok THEN "store" ELSE "raised"

\* what follows index.parse: the locked write, or ClangParseError
AfterParse(ok) == IF ok THEN "lock_store" ELSE "raised"

\* `with self._cache_lock:` entered, by a thread at one of its three places
AcquireLock(t) ==
    /\ thr.pc[t] \in {"start", "lock_store"}
    /\ thr.lock = Unlocked
    /\ thr' = [thr EXCEPT
                 !.lock = t,
                 !.pc[t] = IF thr.pc[t] = "lock_store" THEN "store"
                           ELSE IF thr.call[t].op = "clear" THEN "clear" ELSE "lookup"]
    /\ UNCHANGED <<loc, trk, opt, p2, run, ph1, res, cache, fu, cm, llm, xl>>

\* `if not force_reparse and cache_key in self._translation_units: return ...`
Lookup(t) ==
    /\ thr.pc[t] = "lookup"
    /\ LET hit == ~thr.call[t].force /\ thr.translation_units[ThreadKey(t)] # NoEntry
       IN  thr' = [thr EXCEPT
                     !.pc[t] = IF hit THEN "unlock_hit" ELSE "unlock_miss",
                     !.ret[t] = IF hit THEN thr.translation_units[ThreadKey(t)] ELSE @]
    /\ UNCHANGED <<loc, trk, opt, p2, run, ph1, res, cache, fu, cm, llm, xl>>

\* the end of a `with self._cache_lock:` block
ReleaseLock(t) ==
    /\ thr.pc[t] \in {"unlock_hit", "unlock_miss", "unlock_store", "unlock_clear"}
    /\ thr' = [thr EXCEPT
                 !.lock = Unlocked,
                 !.pc[t] = IF thr.pc[t] = "unlock_miss" THEN "parse" ELSE "returned"]
    /\ UNCHANGED <<loc, trk, opt, p2, run, ph1, res, cache, fu, cm, llm, xl>>

\* tu = self.index.parse(...): a new translation unit, or ClangParseError
Parse(t) ==
    /\ thr.pc[t] = "parse"
    /\ \E ok \in BOOLEAN :
          thr' = [thr EXCEPT
                    !.pc[t] = AfterParse(ok),
                    !.parses = @ + 1,
                    !.tu[t] = IF ok THEN thr.parses + 1 ELSE NoEntry]
    /\ UNCHANGED <<loc, trk, opt, p2, run, ph1, res, cache, fu, cm, llm, xl>>

\* self._translation_units[cache_key] = tu
Store(t) ==
    /\ thr.pc[t] = "store"
    /\ thr' = [thr EXCEPT
                 !.pc[t] = "unlock_store",
                 !.translation_units[ThreadKey(t)] = thr.tu[t],
                 !.writes = Append(@, [key |-> ThreadKey(t), tu |-> thr.tu[t], by |-> t]),
                 !.ret[t] = thr.tu[t]]
    /\ UNCHANGED <<loc, trk, opt, p2, run, ph1, res, cache, fu, cm, llm, xl>>

\* self._translation_units.clear()
Clear(t) ==
    /\ thr.pc[t] = "clear"
    /\ thr' = [thr EXCEPT !.pc[t] = "unlock_clear", !.translation_units = EmptyCache]
    /\ UNCHANGED <<loc, trk, opt, p2, run, ph1, res, cache, fu, cm, llm, xl>>

NextThreads ==
    \/ \E t \in Threads : AcquireLock(t)
    \/ \E t \in Threads : Lookup(t)
    \/ \E t \in Threads : ReleaseLock(t)
    \/ \E t \in Threads : Parse(t)
    \/ \E t \in Threads : Store(t)
    \/ \E t \in Threads : Clear(t)

SpecThreads == InitThreads /\ [][NextThreads]_vars

(***************************************************************************)
(* The cache under a sequence of calls made one after the other.           *)
(* cache.made_for[tu] is the (absolute path, mode) translation unit tu was *)
(* parsed for; cache.before is the cache map before the last call.         *)
(***************************************************************************)
SeriesPaths == {"a.cpp", "./a.cpp", "b.cpp"}

\* what the try block of get_translation_unit meets: a translation unit, None
\* from index.parse, an exception of index.parse, an exception while the
\* diagnostics are read
ParseOutcomes == {"tu", "none", "load_error", "diagnostics_error"}
NoError == ""
\* the except clause as a mutant: the exception is passed on as it is
MutRaisedAsIs(outcome) ==
    CASE outcome = "none" -> "ClangParseError"
      [] outcome = "load_error" -> "TranslationUnitLoadError"
      [] OTHER -> "Exception"
\* except Exception as e: raise ClangParseError(...)
ExceptionRaised(outcome) == "ClangParseError"

InitSeries ==
    /\ cache = [pc |-> "ready", translation_units |-> EmptyCache, before |-> EmptyCache,
                made_for |-> <<>>, calls |-> 0,
                last |-> [ClearCall EXCEPT !.op = "none"],
                ret |-> NoEntry, parsed |-> FALSE, raised |-> FALSE,
                error |-> NoError]
    /\ loc = Idle /\ trk = Idle /\ opt = Idle /\ p2 = Idle
    /\ run = Idle /\ ph1 = Idle /\ res = Idle /\ thr = Idle
    /\ fu = Idle /\ cm = Idle
    /\ llm = Idle /\ xl = Idle

\* get_translation_unit(file_path, skip_function_bodies, force_reparse)
GetTranslationUnit ==
    /\ cache.pc = "ready" /\ cache.calls < MaxCalls
    /\ \E file_path \in SeriesPaths, skip \in BOOLEAN, force \in BOOLEAN,
          outcome \in ParseOutcomes :
          LET cache_key == CacheKey(file_path, skip)
              hit == ~force /\ cache.translation_units[cache_key] # NoEntry
              ok == outcome = "tu"
              tu == Len(cache.made_for) + 1
              call == [cache EXCEPT !.calls = @ + 1, !.before = cache.translation_units,
                                    !.last = GetCall(file_path, skip, force),
                                    !.error = NoError]
          IN  cache' =
                IF hit
                THEN [call EXCEPT !.ret = cache.translation_units[cache_key],
                                  !.parsed = FALSE, !.raised = FALSE]
                ELSE IF ok
                THEN [call EXCEPT !.translation_units[cache_key] = tu,
                                  !.made_for = Append(@, <<AbsPath(file_path), skip>>),
                                  !.ret = tu, !.parsed = TRUE, !.raised = FALSE]
                ELSE [call EXCEPT !.ret = NoEntry, !.parsed = TRUE, !.raised = TRUE,
                                  !.error = ExceptionRaised(outcome)]
    /\ UNCHANGED <<loc, trk, opt, p2, run, ph1, res, thr, fu, cm, llm, xl>>

\* clear_cache()
ClearCache ==
    /\ cache.pc = "ready" /\ cache.calls < MaxCalls
    /\ cache' = [cache EXCEPT !.calls = @ + 1, !.before = cache.translation_units,
                              !.translation_units = EmptyCache, !.last = ClearCall,
                              !.ret = NoEntry, !.parsed = FALSE, !.raised = FALSE,
                              !.error = NoError]
    /\ UNCHANGED <<loc, trk, opt, p2, run, ph1, res, thr, fu, cm, llm, xl>>

NextSeries ==
    \/ GetTranslationUnit
    \/ ClearCache

SpecSeries == InitSeries /\ [][NextSeries]_vars

(***************************************************************************)
(* Claims about the cache.                                                 *)
(***************************************************************************)
\* the writes made for a key, in order
WritesOf(key) == SelectSeq(thr.writes, LAMBDA w : w.key = key)

\* C15: with threads calling get_translation_unit and clear_cache on one
\* analyzer, every read and write of the cache map is made by the thread that
\* holds the cache lock; when two threads raced on one key, and both returned
\* (no thread clearing the cache), the cache holds for that key the translation
\* unit written last, one a successful parse made.
C15_CacheAccessLocked ==
        /\ \A t \in Threads : thr.pc[t] \in {"lookup", "store", "clear"} => thr.lock = t
        /\ \A t, u \in Threads :
              ( /\ t # u
                /\ \A v \in Threads : thr.call[v].op = "get"
                /\ ThreadKey(t) = ThreadKey(u)
                /\ thr.pc[t] = "returned" /\ thr.pc[u] = "returned" )
              => LET key == ThreadKey(t)
                     writes == WritesOf(key)
                 IN  /\ thr.translation_units[key] # NoEntry
                     /\ thr.translation_units[key] \in 1..thr.parses
                     /\ writes # <<>>
                     /\ thr.translation_units[key] = writes[Len(writes)].tu
                     /\ \E v \in Threads :
                           ThreadKey(v) = key /\ thr.tu[v] = thr.translation_units[key]

\* C15's case: two threads missed the same key, both parsed outside the lock
\* and both wrote; the entry is the second write's.
C15_Witness ==
    /\ \A t \in Threads : thr.pc[t] = "returned"
    /\ ThreadKey(1) = ThreadKey(2)
    /\ thr.call[1].file_path # thr.call[2].file_path
    /\ ~thr.call[1].force /\ ~thr.call[2].force
    /\ Len(thr.writes) = 2
    /\ thr.writes[1].by # thr.writes[2].by
    /\ thr.translation_units[ThreadKey(1)] = thr.writes[2].tu

\* the key of the request the last call made: absolute path and mode
LastRequest == <<AbsPath(cache.last.file_path), cache.last.skip>>

NoUnit == [tag |-> "none"]
TheUnit(u) == [tag |-> "unit", unit |-> u]
NoContext == [tag |-> "none"]
TheContext(c) == [tag |-> "context", context |-> c]

\* _read_source_range: "" when the file cannot be read
ReadSourceRangeOrEmpty(file, start_line, end_line, readable) ==
    IF readable THEN ReadSourceRange(file, start_line, end_line) ELSE <<EndLine>>

\* _cursor_to_function_info
CursorToFunctionInfo(cursor, file, readable) ==
    FunctionInfo(IF cursor.spelling = "" THEN "<lambda>" ELSE cursor.spelling,
                 file, cursor.start, cursor.end,
                 ReadSourceRangeOrEmpty(file, cursor.start, cursor.end, readable),
                 cursor.spelling, "", <<>>)

\* extract_function_at_line: the unit of the cursor found, or None
ExtractFunctionUnit(file, line, parse_ok, readable) ==
    LET r == ExtractResult(file, line, parse_ok)
    IN  IF r.tag = "node" THEN TheUnit(CursorToFunctionInfo(r.node, file, readable))
        ELSE NoUnit

\* extract_function_with_context: the function's unit, else the line window,
\* else None when the file cannot be read
ExtractFunctionWithContext(file, line, context_lines, parse_ok, readable) ==
    LET func_info == ExtractFunctionUnit(file, line, parse_ok, readable)
    IN  IF func_info.tag = "unit" THEN func_info
        ELSE IF readable THEN TheUnit(ContextWindow(file, line, context_lines))
        ELSE NoUnit

\* len(rule_info.to_prompt_text()) of the rule found in rules_db, 0 for None
RuleTextLen(rule_known) == IF rule_known THEN 90 ELSE 0

\* build_phase1_context
BuildPhase1Context(file, line, parse_ok, readable, rule_known) ==
    LET first == ExtractFunctionUnit(file, line, parse_ok, readable)
        func_info == IF first.tag = "unit" THEN first
                     ELSE ExtractFunctionWithContext(file, line, ContextLines,
                                                     parse_ok, readable)
    IN  IF func_info.tag = "none" THEN NoContext
        ELSE TheContext(AnalysisContext(func_info.unit, line, RuleTextLen(rule_known),
                                        <<>>, <<>>, <<>>))

\* the lines findings point at: lines of the file and lines past its end
FindingLines == (0..MaxLine) \cup {MaxLine + 15, MaxLine + 30}

InitPhase1 ==
    /\ ph1 \in [pc : {"call"}, file : FileIds, line : FindingLines,
                parse_ok : BOOLEAN, readable : BOOLEAN, rule_known : BOOLEAN,
                result : {NoContext}]
    /\ loc = Idle /\ trk = Idle /\ opt = Idle /\ p2 = Idle
    /\ run = Idle /\ res = Idle /\ thr = Idle
    /\ cache = Idle /\ fu = Idle /\ cm = Idle
    /\ llm = Idle /\ xl = Idle

BuildPhase1ContextCall ==
    /\ ph1.pc = "call"
    /\ ph1' = [ph1 EXCEPT
                 !.pc = "done",
                 !.result = BuildPhase1Context(ph1.file, ph1.line, ph1.parse_ok,
                                               ph1.readable, ph1.rule_known)]
    /\ UNCHANGED <<loc, trk, opt, p2, run, res, thr, cache, fu, cm, llm, xl>>

NextPhase1 == BuildPhase1ContextCall

SpecPhase1 == InitPhase1 /\ [][NextPhase1]_vars

\* C12: a failure to parse the target file at Phase 1 is terminal for the
\* finding: build_phase1_context returns None whenever the parse fails; and
\* with the target file parsed and readable a context is returned.
C12_ParseFailureIsTerminal ==
    ph1.pc = "done" =>
        /\ ~ph1.parse_ok => ph1.result = NoContext
        /\ (ph1.parse_ok /\ ph1.readable) => ph1.result.tag = "context"

(***************************************************************************)
(* The producers of function units: the locator, the line-window fallback, *)
(* the caller tracker and the two truncations.  fu.units lists the units   *)
(* the last producer returned.                                             *)
(***************************************************************************)
\* the focus lines given to _truncate_function: in and out of the unit's span
FocusOffsets == {-3, 0, 2, 60, 200}
TruncationBudgets == {0, 6, 50, 100}

InitUnits ==
    /\ \E file \in FileIds, line \in FindingLines, shape \in TargetShapes,
          start \in TargetStarts, offset \in FocusOffsets, budget \in TruncationBudgets :
          fu = [pc |-> "ready", file |-> file, line |-> line,
                func |-> MakeUnit("f", start, shape.n, shape.w),
                focus_line |-> start + offset, max_tokens |-> budget,
                producer |-> "none", units |-> <<>>]
    /\ loc = Idle /\ trk = Idle /\ opt = Idle /\ p2 = Idle
    /\ run = Idle /\ ph1 = Idle /\ res = Idle /\ thr = Idle
    /\ cache = Idle /\ cm = Idle
    /\ llm = Idle /\ xl = Idle

UnitsOf(r) == IF r.tag = "none" THEN <<>> ELSE <<r.unit>>
InfosOf(r) == IF r.tag = "none" THEN <<>> ELSE <<r.info>>

\* extract_function_at_line(file, line)
LocatorProduces ==
    /\ fu.pc = "ready"
    /\ fu' = [fu EXCEPT !.pc = "produced", !.producer = "locator",
                        !.units = UnitsOf(ExtractFunctionUnit(fu.file, fu.line, TRUE, TRUE))]
    /\ UNCHANGED <<loc, trk, opt, p2, run, ph1, res, thr, cache, cm, llm, xl>>

\* extract_function_with_context(file, line, context_lines = 20)
WindowProduces ==
    /\ fu.pc = "ready"
    /\ \E parse_ok \in BOOLEAN :
          fu' = [fu EXCEPT !.pc = "produced", !.producer = "window",
                           !.units = UnitsOf(ExtractFunctionWithContext(
                                         fu.file, fu.line, ContextLines, parse_ok, TRUE))]
    /\ UNCHANGED <<loc, trk, opt, p2, run, ph1, res, thr, cache, cm, llm, xl>>

\* find_callers(name, file)
TrackerProduces ==
    /\ fu.pc = "ready"
    /\ \E target \in TrackerTargets :
          fu' = [fu EXCEPT !.pc = "produced", !.producer = "tracker",
                           !.units = FindCallers(target, <<fu.file>>, 1, MaxCallersArg, {}, {})]
    /\ UNCHANGED <<loc, trk, opt, p2, run, ph1, res, thr, cache, cm, llm, xl>>

\* _truncate_function(func, focus_line, max_tokens)
TruncateFunctionProduces ==
    /\ fu.pc = "ready"
    /\ fu' = [fu EXCEPT !.pc = "produced", !.producer = "truncate_function",
                        !.units = <<TruncateFunction(fu.func, fu.focus_line, fu.max_tokens)>>]
    /\ UNCHANGED <<loc, trk, opt, p2, run, ph1, res, thr, cache, cm, llm, xl>>

\* _truncate_caller(func, max_tokens)
TruncateCallerProduces ==
    /\ fu.pc = "ready"
    /\ fu' = [fu EXCEPT !.pc = "produced", !.producer = "truncate_caller",
                        !.units = InfosOf(TruncateCaller(fu.func, fu.max_tokens))]
    /\ UNCHANGED <<loc, trk, opt, p2, run, ph1, res, thr, cache, cm, llm, xl>>

NextUnits ==
    \/ LocatorProduces
    \/ WindowProduces
    \/ TrackerProduces
    \/ TruncateFunctionProduces
    \/ TruncateCallerProduces

SpecUnits == InitUnits /\ [][NextUnits]_vars

\* C18: every function unit produced has start_line <= end_line, whether the
\* locator, the line-window fallback (for any target line), the caller
\* tracker or a truncation (for any focus line) made it.
C18_StartNotAfterEnd ==
    fu.pc = "produced" =>
        \A i \in DOMAIN fu.units : fu.units[i].start_line <= fu.units[i].end_line

\* the unit _truncate_function was given and the copy it returned
Truncated == fu.pc = "produced" /\ fu.producer = "truncate_function"
\* the absolute numbers of the original lines the copy retains
RetainedLines == {fu.units[1].code[i].a : i \in {j \in DOMAIN fu.units[1].code : fu.units[1].code[j].k = "src"}}
OmittedBefore == {n \in fu.func.start_line..fu.func.end_line : \A r \in RetainedLines : n < r}
OmittedAfter == {n \in fu.func.start_line..fu.func.end_line : \A r \in RetainedLines : n > r}
MarkerAt(i) == fu.units[1].code[i].k = "mark"
MarkerStates(i, omitted) ==
    /\ MarkerAt(i)
    /\ \A n \in omitted : fu.units[1].code[i].a <= n /\ n <= fu.units[1].code[i].b
    /\ fu.units[1].code[i].a \in omitted /\ fu.units[1].code[i].b \in omitted

\* C23: a copy that retains some lines carries one marker at its start exactly
\* when original lines before the retained block were omitted and one at its
\* end exactly when original lines after it were omitted (one line is
\* enough), and each marker states the range of the lines omitted at its end.
C23_MarkersStateOmittedLines ==
    (Truncated /\ RetainedLines # {}) =>
        LET out == fu.units[1].code
            n == Len(out)
        IN  /\ IF OmittedBefore # {} THEN MarkerStates(1, OmittedBefore) ELSE ~MarkerAt(1)
            /\ IF OmittedAfter # {} THEN MarkerStates(n, OmittedAfter) ELSE ~MarkerAt(n)
            /\ \A i \in 2..(n - 1) : ~MarkerAt(i)

\* C24: the copy keeps the name, file, signature, return type and parameters
\* of the unit, and its span is that of the retained lines: start_line is the
\* number of the first retained line and end_line that of the last.
C24_SpanOfRetainedLines ==
    (Truncated /\ RetainedLines # {}) =>
        LET out == fu.units[1]
        IN  /\ out.name = fu.func.name /\ out.file_path = fu.func.file_path
            /\ out.signature = fu.func.signature
            /\ out.return_type = fu.func.return_type
            /\ out.parameters = fu.func.parameters
            /\ \A r \in RetainedLines : out.start_line <= r /\ r <= out.end_line
            /\ out.start_line \in RetainedLines
            /\ out.end_line \in RetainedLines

(***************************************************************************)
(* The CMake parser (io/cmake_parser.py): one parse call on a project      *)
(* directory.  cm.files[i] is the compile_commands.json at the i-th        *)
(* candidate location, cm.cmake_lists the CMakeLists.txt of the project    *)
(* root.  A compiler argument is the sequence of its pieces, "=" being a   *)
(* piece of its own; the lists of a configuration are kept as sets.        *)
(***************************************************************************)
\* candidates of _find_compile_commands, in the order they are tried
CompileCommandsCandidates ==
    <<"build", "cmake-build-debug", "cmake-build-release", "out/build", ".">>

NoFile == [kind |-> "absent"]
\* a file that json.load rejects
InvalidJson == [kind |-> "invalid"]
\* a JSON document that is an object and not a list of entries
JsonObject == [kind |-> "object"]
Entries(es) == [kind |-> "entries", entries |-> es]

StdArg(v) == <<"-std", "=", "c++", v>>
CompileCommandsDocs ==
    { InvalidJson,
      JsonObject,
      Entries(<< <<StdArg("17"), <<"-D", "X">>>> >>),
      Entries(<< <<StdArg("14"), <<"-I", "inc">>>>, <<StdArg("20")>> >>),
      Entries(<< <<<<"-I">>, StdArg("11"), <<"-D", "Y", "=", "1">>>> >>),
      Entries(<< <<<<"-std", "=", "gnu++", "17">>>> >>) }

\* the include directories that exist under the project
ExistingDirs == {<<"inc">>}

CMakeListsTexts ==
    { NoFile,
      [kind |-> "text", project_name |-> "demo", cxx_standard |-> "14"],
      [kind |-> "text", project_name |-> "demo", cxx_standard |-> ""] }

NoStandard == <<>>
NoName == ""
CMakeConfig(includes, sources, args, std, name) ==
    [include_paths |-> includes, source_directories |-> sources,
     compiler_args |-> args, cxx_standard |-> std, project_name |-> name]
EmptyConfig == CMakeConfig({}, {}, {}, NoStandard, NoName)

NoPath == 0
\* _find_compile_commands as a mutant: the last existing candidate wins
MutFindCompileCommandsLast(files) ==
    LET existing == {i \in DOMAIN files : files[i].kind # "absent"}
    IN  IF existing = {} THEN NoPath
        ELSE CHOOSE i \in existing : \A j \in existing : j <= i
\* _find_compile_commands: the first candidate that exists
FindCompileCommands(files) ==
    LET existing == {i \in DOMAIN files : files[i].kind # "absent"}
    IN  IF existing = {} THEN NoPath
        ELSE CHOOSE i \in existing : \A j \in existing : i <= j

\* arg.startswith(prefix)
StartsWith(arg, prefix) ==
    /\ Len(arg) >= Len(prefix)
    /\ SubSeq(arg, 1, Len(prefix)) = prefix

\* arg.split("=")[1]: the pieces between the first "=" and the next one
RECURSIVE UpToEquals(_)
UpToEquals(arg) ==
    IF arg = <<>> \/ Head(arg) = "=" THEN <<>>
    ELSE <<Head(arg)>> \o UpToEquals(Tail(arg))
RECURSIVE AfterEquals(_)
AfterEquals(arg) ==
    IF arg = <<>> THEN <<>>
    ELSE IF Head(arg) = "=" THEN Tail(arg) ELSE AfterEquals(Tail(arg))
SplitEquals1(arg) == UpToEquals(AfterEquals(arg))

\* the while loop over the arguments of one entry, from index i
RECURSIVE ScanArgs(_, _, _)
ScanArgs(args, i, acc) ==
    IF i > Len(args) THEN acc
    ELSE LET arg == args[i]
         IN  IF StartsWith(arg, <<"-I">>)
             THEN LET separate == Len(arg) = 1 /\ i + 1 <= Len(args)
                      inc_path == IF Len(arg) > 1 THEN Tail(arg)
                                  ELSE IF separate THEN args[i + 1] ELSE <<>>
                      found == inc_path # <<>> /\ inc_path \in ExistingDirs
                  IN  ScanArgs(args, IF separate THEN i + 2 ELSE i + 1,
                               [acc EXCEPT !.include_set =
                                   IF found THEN @ \cup {inc_path} ELSE @])
             ELSE IF StartsWith(arg, <<"-D">>)
             THEN ScanArgs(args, i + 1, [acc EXCEPT !.definitions = @ \cup {arg}])
             ELSE IF StartsWith(arg, <<"-std", "=", "c++">>)
             THEN ScanArgs(args, i + 1, [acc EXCEPT !.cxx_standard = SplitEquals1(arg)])
             ELSE ScanArgs(args, i + 1, acc)

\* the for loop over the entries, from entry k
RECURSIVE ScanEntries(_, _, _)
ScanEntries(entries, k, acc) ==
    IF k > Len(entries) THEN acc
    ELSE ScanEntries(entries, k + 1, ScanArgs(entries[k], 1, acc))

ConfigReturned(config) == [tag |-> "config", config |-> config]
ParseRaised == [tag |-> "raised"]

\* _parse_compile_commands(path)
ParseCompileCommands(doc) ==
    IF doc.kind = "invalid" THEN ConfigReturned(EmptyConfig)
    ELSE IF doc.kind = "object" THEN ParseRaised
    ELSE LET acc == ScanEntries(doc.entries, 1,
                        [include_set |-> {}, definitions |-> {},
                         cxx_standard |-> NoStandard])
         IN  ConfigReturned(CMakeConfig(
                 acc.include_set, {},
                 IF acc.cxx_standard # NoStandard
                 THEN acc.definitions \cup {<<"-std", "=">> \o acc.cxx_standard}
                 ELSE acc.definitions,
                 acc.cxx_standard, NoName))

\* _parse_cmake_files()
ParseCMakeFiles(text) ==
    IF text.kind = "absent" THEN ConfigReturned(EmptyConfig)
    ELSE IF text.cxx_standard # ""
    THEN ConfigReturned(CMakeConfig({}, {}, {StdArg(text.cxx_standard)},
                              <<"c++", text.cxx_standard>>, text.project_name))
    ELSE ConfigReturned(CMakeConfig({}, {}, {}, NoStandard, text.project_name))

\* parse()
ParseProject(files, text) ==
    LET compile_commands == FindCompileCommands(files)
    IN  IF compile_commands # NoPath
        THEN ParseCompileCommands(files[compile_commands])
        ELSE ParseCMakeFiles(text)

InitCMake ==
    /\ \E files \in [DOMAIN CompileCommandsCandidates -> CompileCommandsDocs \cup {NoFile}],
          text \in CMakeListsTexts :
          cm = [pc |-> "ready", files |-> files, cmake_lists |-> text,
                compile_commands |-> NoPath, result |-> ParseRaised]
    /\ loc = Idle /\ trk = Idle /\ opt = Idle /\ p2 = Idle
    /\ run = Idle /\ ph1 = Idle /\ res = Idle /\ thr = Idle
    /\ cache = Idle /\ fu = Idle
    /\ llm = Idle /\ xl = Idle

\* CMakeParser(project_root).parse()
ParseCall ==
    /\ cm.pc = "ready"
    /\ cm' = [cm EXCEPT !.pc = "done",
                        !.compile_commands = FindCompileCommands(cm.files),
                        !.result = ParseProject(cm.files, cm.cmake_lists)]
    /\ UNCHANGED <<loc, trk, opt, p2, run, ph1, res, thr, cache, fu, llm, xl>>

NextCMake == ParseCall

SpecCMake == InitCMake /\ [][NextCMake]_vars

\* C19: parse uses the compile_commands.json of the first candidate location
\* that has one (build, cmake-build-debug, cmake-build-release, out/build,
\* project root) and parses CMakeLists.txt only when no location has one;
\* when a compile_commands.json exists the result depends neither on
\* CMakeLists.txt nor on the compile_commands.json of a later location.
C19_CompileCommandsFirst ==
    cm.pc = "done" =>
        LET existing == {i \in DOMAIN cm.files : cm.files[i] # NoFile}
        IN  IF existing = {}
            THEN /\ cm.compile_commands = NoPath
                 /\ cm.result = ParseCMakeFiles(cm.cmake_lists)
                 /\ cm.result.config.cxx_standard =
                        IF cm.cmake_lists = NoFile \/ cm.cmake_lists.cxx_standard = ""
                        THEN NoStandard
                        ELSE <<"c++", cm.cmake_lists.cxx_standard>>
            ELSE /\ cm.compile_commands \in existing
                 /\ \A j \in existing : cm.compile_commands <= j
                 /\ cm.result = ParseCompileCommands(cm.files[cm.compile_commands])
                 /\ \A text \in CMakeListsTexts : ParseProject(cm.files, text) = cm.result
                 /\ \A j \in DOMAIN cm.files, doc \in CompileCommandsDocs \cup {NoFile} :
                        j > cm.compile_commands =>
                            ParseProject([cm.files EXCEPT ![j] = doc], cm.cmake_lists) = cm.result

\* build/compile_commands.json says c++17, the project root's says c++20 and
\* CMakeLists.txt sets CMAKE_CXX_STANDARD to 14: the result is c++17
C19_Witness ==
    /\ cm.pc = "done"
    /\ cm.files[1] = Entries(<< <<StdArg("17"), <<"-D", "X">>>> >>)
    /\ cm.files[5] = Entries(<< <<StdArg("14"), <<"-I", "inc">>>>, <<StdArg("20")>> >>)
    /\ cm.cmake_lists.kind = "text"
    /\ cm.cmake_lists.cxx_standard = "14"
    /\ cm.compile_commands = 1
    /\ cm.result.tag = "config"
    /\ cm.result.config.cxx_standard = <<"c++", "17">>
    /\ cm.result.config.compiler_args = {<<"-D", "X">>, StdArg("17")}

(***************************************************************************)
(* The LLM client (classifier/llm_client.py): one classify call.  An       *)
(* attempt is one pass through the try block: it yields a parsed response, *)
(* an empty one, or an exception.  Times are in units of a tenth of a      *)
(* second; llm.sleeps lists the time.sleep calls of the retry loop and     *)
(* llm.rate_waits those of _wait_for_rate_limit.                           *)
(***************************************************************************)
AttemptOutcomes == {"parsed", "empty", "raises"}
RequestDelays == {5, 10}
\* time.time() - self._last_request_time when classify is entered
ElapsedChoices == {0, 5, 20}

RECURSIVE PowerOfTwo(_)
PowerOfTwo(k) == IF k = 0 THEN 1 ELSE 2 * PowerOfTwo(k - 1)

\* the wait as a mutant: the same delay after every failed attempt
MutWaitTimeConstant(attempt, request_delay) == request_delay
\* wait_time = (2 ** attempt) * self.config.request_delay
WaitTime(attempt, request_delay) == PowerOfTwo(attempt) * request_delay

InitClient ==
    /\ \E max_retries \in 0..MaxRetriesArg, delay \in RequestDelays :
          llm = [pc |-> "called", max_retries |-> max_retries, request_delay |-> delay,
                 attempt |-> 0, tries |-> <<>>, sleeps |-> <<>>, rate_waits |-> <<>>,
                 rate_checks |-> 0, result |-> "pending"]
    /\ loc = Idle /\ trk = Idle /\ opt = Idle /\ p2 = Idle
    /\ run = Idle /\ ph1 = Idle /\ res = Idle /\ thr = Idle
    /\ cache = Idle /\ fu = Idle /\ cm = Idle /\ xl = Idle

\* self._wait_for_rate_limit(), and the loop entered or skipped
WaitForRateLimit ==
    /\ llm.pc = "called"
    /\ \E elapsed \in ElapsedChoices :
          llm' = [llm EXCEPT
                    !.rate_checks = @ + 1,
                    !.rate_waits = IF elapsed < llm.request_delay
                                   THEN Append(@, llm.request_delay - elapsed) ELSE @,
                    !.pc = IF llm.max_retries > 0 THEN "loop" ELSE "returned",
                    !.result = IF llm.max_retries > 0 THEN @ ELSE "None"]
    /\ UNCHANGED <<loc, trk, opt, p2, run, ph1, res, thr, cache, fu, cm, xl>>

\* one iteration of `for attempt in range(max_retries)`
Attempt ==
    /\ llm.pc = "loop"
    /\ \E outcome \in AttemptOutcomes :
          LET tried == [llm EXCEPT !.tries = Append(@, outcome)]
          IN  llm' =
                IF outcome = "parsed"
                THEN [tried EXCEPT !.pc = "returned", !.result = "parsed"]
                ELSE IF outcome = "empty"
                THEN [tried EXCEPT !.pc = "returned", !.result = "None"]
                ELSE IF llm.attempt < llm.max_retries - 1
                THEN [tried EXCEPT
                        !.sleeps = Append(@, WaitTime(llm.attempt, llm.request_delay)),
                        !.attempt = @ + 1]
                ELSE [tried EXCEPT !.pc = "raised", !.result = "LLMError"]
    /\ UNCHANGED <<loc, trk, opt, p2, run, ph1, res, thr, cache, fu, cm, xl>>

NextClient ==
    \/ WaitForRateLimit
    \/ Attempt

SpecClient == InitClient /\ [][NextClient]_vars

RowKinds == {"finding", "empty", "unparsable"}

RECURSIVE SheetsOfLength(_)
SheetsOfLength(n) ==
    IF n = 0 THEN {<<>>}
    ELSE {Append(s, k) : s \in SheetsOfLength(n - 1), k \in RowKinds}

Sheets == UNION {SheetsOfLength(n) : n \in 0..MaxRows}

\* self._df.dropna(how="all"): the indexes of the rows that are kept
RECURSIVE DropEmptyRows(_, _)
DropEmptyRows(sheet, k) ==
    IF k > Len(sheet) THEN <<>>
    ELSE IF sheet[k] = "empty" THEN DropEmptyRows(sheet, k + 1)
    ELSE <<k - 1>> \o DropEmptyRows(sheet, k + 1)

\* excel_row = row_index + 2, the number in the id F<excel_row>
ExcelRow(row_index) == row_index + 2

\* finding_id_to_row = {f.id: i + 2 for i, f in enumerate(findings)}
FindingIdToRow(findings) ==
    [id \in {findings[i] : i \in DOMAIN findings} |->
        (CHOOSE i \in DOMAIN findings : findings[i] = id) - 1 + 2]

InitSheet ==
    /\ \E sheet \in Sheets :
          xl = [pc |-> "load", sheet |-> sheet, df |-> <<>>, i |-> 1, findings |-> <<>>,
                finding_id_to_row |-> <<>>, results |-> {}, written |-> {}]
    /\ loc = Idle /\ trk = Idle /\ opt = Idle /\ p2 = Idle
    /\ run = Idle /\ ph1 = Idle /\ res = Idle /\ thr = Idle
    /\ cache = Idle /\ fu = Idle /\ cm = Idle /\ llm = Idle

\* ExcelReader._load_dataframe
LoadDataframe ==
    /\ xl.pc = "load"
    /\ xl' = [xl EXCEPT !.df = DropEmptyRows(xl.sheet, 1), !.pc = "read"]
    /\ UNCHANGED <<loc, trk, opt, p2, run, ph1, res, thr, cache, fu, cm, llm>>

\* one iteration of the loop of ExcelReader.read over self._df.iterrows()
ReadRow ==
    /\ xl.pc = "read" /\ xl.i <= Len(xl.df)
    /\ LET idx == xl.df[xl.i]
       IN  xl' = [xl EXCEPT
                    !.findings = IF xl.sheet[idx + 1] = "finding"
                                 THEN Append(@, ExcelRow(idx)) ELSE @,
                    !.i = @ + 1]
    /\ UNCHANGED <<loc, trk, opt, p2, run, ph1, res, thr, cache, fu, cm, llm>>

\* read returns, and process builds the mapping and one result per finding
MapRows ==
    /\ xl.pc = "read" /\ xl.i > Len(xl.df)
    /\ xl' = [xl EXCEPT !.finding_id_to_row = FindingIdToRow(xl.findings),
                        !.results = {xl.findings[i] : i \in DOMAIN xl.findings},
                        !.pc = "write"]
    /\ UNCHANGED <<loc, trk, opt, p2, run, ph1, res, thr, cache, fu, cm, llm>>

\* one iteration of the loop of ExcelWriter.write_results
WriteResult ==
    /\ xl.pc = "write"
    /\ \E finding_id \in xl.results :
          xl' = [xl EXCEPT
                   !.results = @ \ {finding_id},
                   !.written = IF finding_id \in DOMAIN xl.finding_id_to_row
                               THEN @ \cup {[id |-> finding_id,
                                             row_num |-> xl.finding_id_to_row[finding_id]]}
                               ELSE @]
    /\ UNCHANGED <<loc, trk, opt, p2, run, ph1, res, thr, cache, fu, cm, llm>>

\* wb.save(self.output_file)
SaveWorkbook ==
    /\ xl.pc = "write" /\ xl.results = {}
    /\ xl' = [xl EXCEPT !.pc = "saved"]
    /\ UNCHANGED <<loc, trk, opt, p2, run, ph1, res, thr, cache, fu, cm, llm>>

NextSheet ==
    \/ LoadDataframe
    \/ ReadRow
    \/ MapRows
    \/ WriteResult
    \/ SaveWorkbook

SpecSheet == InitSheet /\ [][NextSheet]_vars

\* C29: every result is written to the sheet row its finding was read from:
\* the row process associates with a finding's id is the row encoded in the
\* id, also for sheets with empty rows that are dropped or rows that fail to
\* parse and are skipped.
C29_ResultWrittenToOwnRow ==
    /\ xl.pc \in {"write", "saved"} =>
          \A id \in DOMAIN xl.finding_id_to_row : xl.finding_id_to_row[id] = id
    /\ xl.pc # "idle" => \A w \in xl.written : w.row_num = w.id

(***************************************************************************)
(* The classifier (main.py): process loops over the findings read from the *)
(* report and classifies each with _classify_finding.  A finding is named  *)
(* by its row index; confidences and the threshold are in percent.         *)
(* run.log[i] lists the steps made for finding i, each with its outcome.   *)
(***************************************************************************)
ClassificationResult(finding_id, kind, confidence, phase) ==
    [finding_id |-> finding_id, kind |-> kind, confidence |-> confidence, phase |-> phase]

\* ResponseParser.create_error_result / create_skip_result / parse
CreateErrorResult(finding_id, phase) == ClassificationResult(finding_id, "error", 0, phase)
CreateSkipResult(finding_id, phase) == ClassificationResult(finding_id, "skip", 0, phase)
ParseResponse(confidence, finding_id, phase) ==
    ClassificationResult(finding_id, "classified", confidence, phase)

\* ClassificationResult.is_high_confidence
MutIsHighConfidenceStrict(result, threshold) == result.confidence > threshold

IsHighConfidence(result, threshold) == result.confidence >= threshold

Event(step, outcome) == [step |-> step, outcome |-> outcome, budget |-> 0, confidence |-> 0]
OptimizeEvent(step, outcome, budget) == [Event(step, outcome) EXCEPT !.budget = budget]
LlmEvent(step, outcome, confidence) ==
    [Event(step, outcome) EXCEPT !.confidence = IF outcome = "response" THEN confidence ELSE 0]

ConfidenceLevels == {0, 50, 79, 80, 100}
Thresholds == {50, 80}
TokenBudgets == {2040, 250000}

InitProcess ==
    /\ \E n \in 1..MaxFindings, threshold \in Thresholds, max_tokens \in TokenBudgets :
          run = [pc |-> "phase1", total |-> n, i |-> 1,
                 confidence_threshold |-> threshold, max_tokens |-> max_tokens,
                 results |-> <<>>, assigned |-> [k \in 1..n |-> 0],
                 log |-> [k \in 1..n |-> <<>>],
                 result |-> CreateSkipResult(0, 0),
                 stats |-> [phase1_resolved |-> 0, phase2_resolved |-> 0, errors |-> 0],
                 escaped |-> FALSE]
    /\ loc = Idle /\ trk = Idle /\ opt = Idle /\ p2 = Idle
    /\ ph1 = Idle /\ res = Idle /\ thr = Idle
    /\ cache = Idle /\ fu = Idle /\ cm = Idle
    /\ llm = Idle /\ xl = Idle

\* results[finding.id] = r, as a list indexed by the row of the finding
Assign(results, id, r) ==
    [k \in 1..Max(Len(results), id) |->
        IF k = id THEN r ELSE IF k <= Len(results) THEN results[k] ELSE CreateSkipResult(0, 0)]

\* the end of one turn of the loop: progress.update, then the next finding
NextFinding(r) == [r EXCEPT !.pc = IF r.i = r.total THEN "write" ELSE "phase1",
                            !.i = IF r.i = r.total THEN r.i ELSE r.i + 1]

\* process, the try body after _classify_finding returned `result`
Returned1(r, ev, result) ==
    NextFinding([r EXCEPT
        !.log[r.i] = Append(@, ev),
        !.results = Assign(@, r.i, result),
        !.assigned[r.i] = @ + 1,
        !.stats.phase1_resolved = IF result.phase = 1 THEN @ + 1 ELSE @,
        !.stats.phase2_resolved = IF result.phase = 1 THEN @ ELSE @ + 1])

\* process without its `except Exception`: the exception leaves the loop
MutHandledEscapes(r, ev) ==
    [r EXCEPT !.log[r.i] = Append(@, ev), !.pc = "aborted", !.escaped = TRUE]

\* process, `except Exception`: an error result of phase 0 for this finding
Handled(r, ev) ==
    NextFinding([r EXCEPT
        !.log[r.i] = Append(@, ev),
        !.results = Assign(@, r.i, CreateErrorResult(r.i, 0)),
        !.assigned[r.i] = @ + 1,
        !.stats.errors = @ + 1])

\* one more step of _classify_finding done, the next one to come
Step(r, ev, pc) == [r EXCEPT !.log[r.i] = Append(@, ev), !.pc = pc]

\* phase1_context = self.context_builder.build_phase1_context(finding)
BuildPhase1 ==
    /\ run.pc = "phase1"
    /\ \E outcome \in {"context", "none", "raise"} :
          run' = CASE outcome = "context" -> Step(run, Event("build1", outcome), "optimize1")
                   [] outcome = "none" ->
                        Returned1(run, Event("build1", outcome), CreateSkipResult(run.i, 1))
                   [] OTHER -> Handled(run, Event("build1", outcome))
    /\ UNCHANGED <<loc, trk, opt, p2, ph1, res, thr, cache, fu, cm, llm, xl>>

\* optimized_context = self.token_optimizer.optimize_context(phase1_context)
Optimize1 ==
    /\ run.pc = "optimize1"
    /\ \E outcome \in {"ok", "raise"} :
          LET ev == OptimizeEvent("optimize1", outcome, run.max_tokens)
          IN  run' = IF outcome = "ok" THEN Step(run, ev, "prompt1") ELSE Handled(run, ev)
    /\ UNCHANGED <<loc, trk, opt, p2, ph1, res, thr, cache, fu, cm, llm, xl>>

\* build_system_prompt, build_phase1_prompt
Prompt1 ==
    /\ run.pc = "prompt1"
    /\ \E outcome \in {"ok", "raise"} :
          LET ev == Event("prompt1", outcome)
          IN  run' = IF outcome = "ok" THEN Step(run, ev, "llm1") ELSE Handled(run, ev)
    /\ UNCHANGED <<loc, trk, opt, p2, ph1, res, thr, cache, fu, cm, llm, xl>>

\* the first LLM call, the parse of its response and the confidence test
Llm1 ==
    /\ run.pc = "llm1"
    /\ \E outcome \in {"response", "none", "llm_error", "raise"}, confidence \in ConfidenceLevels :
          LET ev == LlmEvent("llm1", outcome, confidence)
              result == ParseResponse(confidence, run.i, 1)
          IN  run' = CASE outcome = "raise" -> Handled(run, ev)
                       [] outcome \in {"none", "llm_error"} ->
                            Returned1(run, ev, CreateErrorResult(run.i, 1))
                       [] OTHER ->
                            IF IsHighConfidence(result, run.confidence_threshold)
                            THEN Returned1(run, ev, result)
                            ELSE [Step(run, ev, "phase2") EXCEPT !.result = result]
    /\ UNCHANGED <<loc, trk, opt, p2, ph1, res, thr, cache, fu, cm, llm, xl>>

\* phase2_context = self.context_builder.build_phase2_context(finding, phase1_context)
BuildPhase2 ==
    /\ run.pc = "phase2"
    /\ \E outcome \in {"context", "raise"} :
          LET ev == Event("build2", outcome)
          IN  run' = IF outcome = "context" THEN Step(run, ev, "optimize2")
                     ELSE Handled(run, ev)
    /\ UNCHANGED <<loc, trk, opt, p2, ph1, res, thr, cache, fu, cm, llm, xl>>

\* optimized_context2 = self.token_optimizer.optimize_context(phase2_context)
Optimize2 ==
    /\ run.pc = "optimize2"
    /\ \E outcome \in {"ok", "raise"} :
          LET ev == OptimizeEvent("optimize2", outcome, run.max_tokens)
          IN  run' = IF outcome = "ok" THEN Step(run, ev, "prompt2") ELSE Handled(run, ev)
    /\ UNCHANGED <<loc, trk, opt, p2, ph1, res, thr, cache, fu, cm, llm, xl>>

\* build_phase2_prompt
Prompt2 ==
    /\ run.pc = "prompt2"
    /\ \E outcome \in {"ok", "raise"} :
          LET ev == Event("prompt2", outcome)
          IN  run' = IF outcome = "ok" THEN Step(run, ev, "llm2") ELSE Handled(run, ev)
    /\ UNCHANGED <<loc, trk, opt, p2, ph1, res, thr, cache, fu, cm, llm, xl>>

\* the second LLM call: its parsed response, or the Phase 1 result as phase 2
Llm2 ==
    /\ run.pc = "llm2"
    /\ \E outcome \in {"response", "none", "llm_error", "raise"}, confidence \in ConfidenceLevels :
          LET ev == LlmEvent("llm2", outcome, confidence)
          IN  run' = CASE outcome = "raise" -> Handled(run, ev)
                       [] outcome \in {"none", "llm_error"} ->
                            Returned1(run, ev, [run.result EXCEPT !.phase = 2])
                       [] OTHER -> Returned1(run, ev, ParseResponse(confidence, run.i, 2))
    /\ UNCHANGED <<loc, trk, opt, p2, ph1, res, thr, cache, fu, cm, llm, xl>>

\* writer.write_results(results, finding_id_to_row)
WriteResults ==
    /\ run.pc = "write"
    /\ run' = [run EXCEPT !.pc = "written"]
    /\ UNCHANGED <<loc, trk, opt, p2, ph1, res, thr, cache, fu, cm, llm, xl>>

NextProcess ==
    \/ BuildPhase1
    \/ Optimize1
    \/ Prompt1
    \/ Llm1
    \/ BuildPhase2
    \/ Optimize2
    \/ Prompt2
    \/ Llm2
    \/ WriteResults

SpecProcess == InitProcess /\ [][NextProcess]_vars

(***************************************************************************)
(* Claims about the classifier.                                            *)
(***************************************************************************)
\* the steps of finding k that ended with the given outcome
HasEvent(k, step, outcome) ==
    \E e \in DOMAIN run.log[k] : run.log[k][e].step = step /\ run.log[k][e].outcome = outcome

Failed(k) ==
    \E e \in DOMAIN run.log[k] : run.log[k][e].outcome \in {"raise", "llm_error", "none"}

\* C11: every finding gets exactly one ClassificationResult whatever fails
\* while it is handled; a failure of one finding gives that finding an error
\* (or skip) result and the later findings are still processed; no exception
\* leaves the loop.
C11_OneResultPerFinding ==
    /\ run.pc # "idle" => ~run.escaped
    /\ run.pc \in {"write", "written"} =>
          /\ Len(run.results) = run.total
          /\ \A k \in 1..run.total :
                /\ run.assigned[k] = 1
                /\ run.results[k].finding_id = k
                /\ run.log[k] # <<>>
                /\ HasEvent(k, run.log[k][Len(run.log[k])].step, "raise")
                      => run.results[k] = CreateErrorResult(k, 0)

\* C11's case: the first finding fails with an exception in the LLM call of
\* Phase 2 and gets an error result; the second is still classified.
C11_Witness ==
    /\ run.pc = "written"
    /\ run.total = 2
    /\ HasEvent(1, "llm2", "raise")
    /\ run.results[1] = CreateErrorResult(1, 0)
    /\ run.results[2].kind = "classified"
    /\ run.stats.errors = 1

\* the steps of finding k up to, and without, its Phase 2 build
BeforePhase2(k) ==
    LET at == CHOOSE e \in DOMAIN run.log[k] : run.log[k][e].step = "build2"
    IN  SubSeq(run.log[k], 1, at - 1)

\* C17: _classify_finding builds the Phase 2 context of a finding only after
\* the Phase 1 context was built and optimized, the LLM answered and the
\* Phase 1 confidence is below the threshold; never when the Phase 1 context
\* is None, the Phase 1 LLM call failed or the confidence is >= the threshold;
\* both phases are optimized under the same budget.
C17_Phase2OnlyWhenNeeded ==
    run.pc # "idle" =>
        \A k \in 1..run.total :
            LET log == run.log[k]
            IN  /\ (\E e \in DOMAIN log : log[e].step = "build2") =>
                      LET before == BeforePhase2(k)
                      IN  /\ Len(before) = 4
                          /\ before[1].step = "build1" /\ before[1].outcome = "context"
                          /\ before[2].step = "optimize1" /\ before[2].outcome = "ok"
                          /\ before[3].step = "prompt1" /\ before[3].outcome = "ok"
                          /\ before[4].step = "llm1" /\ before[4].outcome = "response"
                          /\ before[4].confidence < run.confidence_threshold
                /\ \A e, f \in DOMAIN log :
                      (log[e].step = "optimize1" /\ log[f].step = "optimize2")
                      => log[e].budget = log[f].budget /\ log[e].budget = run.max_tokens

\* C17's case: a Phase 1 answer just below the threshold is followed by a
\* Phase 2 build, its optimization and a Phase 2 answer.
C17_Witness ==
    /\ run.pc = "written"
    /\ run.confidence_threshold = 80
    /\ HasEvent(1, "build2", "context") /\ HasEvent(1, "optimize2", "ok")
    /\ run.log[1][4].confidence = 79
    /\ run.results[1].phase = 2 /\ run.results[1].kind = "classified"

(***************************************************************************)
(* Claims about the caller tracker.                                        *)
(***************************************************************************)
NoRepeatedFunction(units) ==
    \A i, j \in DOMAIN units :
        i # j => FuncKey(units[i].file_path, units[i].name)
                 # FuncKey(units[j].file_path, units[j].name)

\* C25: a file whose parse or traversal raises contributes no caller and does
\* not stop the search: the files are scanned in order until the cap is
\* reached, whether or not a search failed, and find_callers returns.
C25_FailedFileContributesNothing ==
    (trk.pc = "done" /\ trk.max_depth >= 1 /\ trk.max_callers >= 1) =>
        /\ \E k \in 0..Len(trk.source_files) :
              /\ trk.scanned = [i \in 1..k |-> i]
              /\ k < Len(trk.source_files) => Len(trk.callers) >= trk.max_callers
        /\ \A i \in DOMAIN trk.failed, j \in DOMAIN trk.callers :
              trk.callers[j].file_path # trk.source_files[trk.failed[i]]
        /\ Len(trk.result) <= trk.max_callers

\* C5: find_callers returns at most max_callers units and records no
\* (file, function name) pair twice in one invocation.
C5_CappedAndNoRepeat ==
    trk.pc = "done" =>
        /\ Len(trk.result) <= trk.max_callers
        /\ NoRepeatedFunction(trk.callers)
        /\ NoRepeatedFunction(trk.result)

\* C5's case: a file listed twice, whose method m calls the target twice, is
\* scanned both times and the search then goes on until the cap is reached.
C5_Witness ==
    /\ trk.pc = "done"
    /\ trk.target = "Foo"
    /\ trk.source_files = <<2, 2, 1>>
    /\ trk.scanned = <<1, 2, 3>>
    /\ Len(trk.result) = trk.max_callers
    /\ trk.max_callers = 3

RECURSIVE CallSiteOwners(_, _, _)
RECURSIVE CallSiteOwnersOfChildren(_, _, _, _)
\* The spellings of the functions that own the calls of `target_name`, one per
\* call expression, in the depth-first order of the call expressions.
CallSiteOwners(node, owner, target_name) ==
    IF node.file = "other" THEN <<>>
    ELSE LET own == IF node.kind \in TrackerFunctionKinds /\ node.isDef
                    THEN <<node.spelling>> ELSE owner
         IN  (IF node.kind = "CALL_EXPR" /\ node.spelling = target_name THEN own ELSE <<>>)
             \o CallSiteOwnersOfChildren(node.children, 1, own, target_name)

CallSiteOwnersOfChildren(children, i, own, target_name) ==
    IF i > Len(children) THEN <<>>
    ELSE CallSiteOwners(children[i], own, target_name)
         \o CallSiteOwnersOfChildren(children, i + 1, own, target_name)

FirstIndex(seq, x) == CHOOSE i \in DOMAIN seq : seq[i] = x /\ \A j \in 1..(i - 1) : seq[j] # x

\* C7: find_callers returns the callers in discovery order: by the position of
\* their file in the file list, and within one file by the depth-first position
\* of their first call of the target.
C7_DiscoveryOrder ==
    trk.pc = "done" =>
        \A i, j \in DOMAIN trk.result :
            i < j =>
              LET ci == trk.result[i]
                  cj == trk.result[j]
                  sites == CallSiteOwners(Files[ci.file_path], <<>>, trk.target)
              IN  /\ FirstIndex(trk.source_files, ci.file_path)
                       <= FirstIndex(trk.source_files, cj.file_path)
                  /\ ci.file_path = cj.file_path =>
                       FirstIndex(sites, ci.name) < FirstIndex(sites, cj.name)

\* C7's scenario: Foo is called inside A (file 1) and B (file 2), max_callers = 3.
C7_Witness ==
    /\ trk.pc = "done"
    /\ trk.target = "Foo"
    /\ trk.source_files = <<1, 2>>
    /\ trk.max_callers = 3
    /\ trk.unparsable = {} /\ trk.unreadable = {}
    /\ Len(trk.result) = 3
    /\ trk.result[1].name = "A" /\ trk.result[1].file_path = 1
    /\ trk.result[2].name = "B" /\ trk.result[2].file_path = 2
    /\ trk.result[3].name = "m"

\* C6: find_call_chain returns at most 10 chains, each of at most max_depth
\* callers and without a repeated (file, function name) node, and the visited
\* set is empty when the call returns.
C6_ChainsBounded ==
    trk.pc = "chained" =>
        /\ Len(trk.chains) <= MaxChains
        /\ \A k \in DOMAIN trk.chains :
              /\ Len(trk.chains[k]) <= trk.max_depth
              /\ NoRepeatedFunction(trk.chains[k])
        /\ trk.visited = {}

\* C6's case: the cap of 10 chains is reached with chains of two callers, built
\* over a call graph where every Xi is called by every Yj.
C6_Witness ==
    /\ trk.pc = "chained"
    /\ Len(trk.chains) = MaxChains
    /\ \E k \in DOMAIN trk.chains : Len(trk.chains[k]) = 2
    /\ trk.visited = {}

\* the callers the lookup of find_call_chain finds for a function name
ChainStepLookup(name) ==
    FindCallers(name, trk.source_files, 1, ChainStepCallers, trk.unparsable, trk.unreadable)

RECURSIVE TerminatingPaths(_, _)
\* the caller paths from `name` of at most n callers that end at a function
\* for which the lookup finds no caller
TerminatingPaths(name, n) ==
    IF n = 0 THEN {}
    ELSE LET callers == ChainStepLookup(name)
         IN  UNION { (IF ChainStepLookup(callers[i].name) = <<>>
                      THEN {<<callers[i]>>} ELSE {})
                     \cup {<<callers[i]>> \o rest :
                              rest \in TerminatingPaths(callers[i].name, n - 1)} :
                     i \in DOMAIN callers }

\* C26: find_call_chain records every terminating caller path of at most
\* max_depth callers as exactly one chain (while fewer than 10 are recorded),
\* and every chain is non-empty and ends at a function without callers.
C26_OneChainPerTerminatingPath ==
    trk.pc = "chained" =>
        /\ \A k \in DOMAIN trk.chains :
              /\ trk.chains[k] # <<>>
              /\ ChainStepLookup(trk.chains[k][Len(trk.chains[k])].name) = <<>>
        /\ Len(trk.chains) < MaxChains =>
              \A path \in TerminatingPaths(trk.target, trk.max_depth) :
                 Cardinality({k \in DOMAIN trk.chains : trk.chains[k] = path}) = 1

(***************************************************************************)
(* What the locator is meant to find: the function-like nodes of the       *)
(* target file whose extent contains the line, and the innermost of them.  *)
(***************************************************************************)
IsFunctionLike(n) ==
    \/ n.kind \in LocatorFunctionKinds /\ n.isDef
    \/ n.kind = "LAMBDA_EXPR"

RECURSIVE SubtreeNodes(_)
\* the nodes of a subtree that the walk may visit: subtrees of other files' nodes are pruned
SubtreeNodes(n) ==
    IF n.file = "other" THEN {}
    ELSE {n} \cup UNION {SubtreeNodes(n.children[i]) : i \in 1..Len(n.children)}

StrictSubtreeNodes(n) ==
    UNION {SubtreeNodes(n.children[i]) : i \in 1..Len(n.children)}

EnclosingCandidates(file, line) ==
    {n \in SubtreeNodes(Files[file]) : IsFunctionLike(n) /\ Contains(n, line)}

InnermostCandidates(file, line) ==
    {n \in EnclosingCandidates(file, line) :
        \A m \in StrictSubtreeNodes(n) : ~(IsFunctionLike(m) /\ Contains(m, line))}

\* C1: for a line inside a function-like definition, extract_function_at_line
\* returns the innermost function-like node that contains the line, and it
\* returns None only when no function-like node contains the line.
C1_InnermostReturned ==
    (loc.pc = "done" /\ loc.parse_ok) =>
        IF EnclosingCandidates(loc.file, loc.line) = {}
        THEN loc.result = NotFound
        ELSE /\ loc.result.tag = "node"
             /\ loc.result.node \in InnermostCandidates(loc.file, loc.line)

\* C30: _find_enclosing_function ends with a result for every tree and every
\* line: its recursive calls are on ever smaller subtrees, so the search never
\* ends by exhausting the call stack.
C30_SearchNeverExhaustsStack ==
    (loc.pc = "done" /\ loc.parse_ok) =>
        /\ ~loc.raised
        /\ FindEnclosingFunction(Files[loc.file], loc.line, 1) # Overflow

====
